---- MODULE Spec2Model ----
(***************************************************************************)
(* Geometric analysis engine of ComfyUI_VVL_DataProcessing:               *)
(*   - density filter      (glb_point_cloud_density_filter.py)            *)
(*   - RANSAC plane fitter (glb_point_cloud_rotation_corrector.py)        *)
(*   - rotation solver     (glb_point_cloud_rotation_corrector.py)        *)
(*   - bounding volumes    (glb_point_cloud_bounds.py)                    *)
(*                                                                         *)
(* Arithmetic.  Coordinates are integers, and every float of the code is  *)
(* carried as an exact fraction (numerator over a named denominator), so  *)
(* comparisons are those of real arithmetic; float rounding is outside    *)
(* the model.  User fractions (density_threshold, neighborhood_radius,    *)
(* preserve_core_percentage) are carried in hundredths, as the node's     *)
(* step of 0.01 / 0.05 gives them.                                         *)
(*                                                                         *)
(* Each operation is one action that records the inputs and the outputs   *)
(* of the call in the variable of its component.  The only state that     *)
(* outlives a call is the process-wide numpy random generator, rng.       *)
(***************************************************************************)
EXTENDS Integers, Sequences, FiniteSets, TLC

VARIABLES
    density_call,   \* last _apply_density_filter call: inputs, stages, mask
    fit_call,       \* last _ransac_plane_fitting call: inputs and result
    align_call,     \* last _calculate_rotation_transform call
    bounds_call,    \* last calculate_bounds_and_visualize call
    detect_call,    \* last _detect_ground_plane call
    filter_call,    \* last filter_by_density call: scene, masks, export, return
    correct_call,   \* correct_rotation in progress, and apply_transform after it
    rng             \* state of the global numpy random generator

vars ==
    <<density_call, fit_call, align_call, bounds_call, detect_call, filter_call,
      correct_call, rng>>

----------------------------------------------------------------------------
(* Bounds of the model *)

\* largest point set given to the density filter
MaxPoints == 5
\* largest point set given to the plane fitter
MaxFitPoints == 5
\* largest number of RANSAC rounds
MaxIterations == 2
\* number of nodes of a scene given to the bounds calculator
MaxNodes == 2
\* largest point set given to the ground detector
MaxDetectPoints == 4

----------------------------------------------------------------------------
(* Vectors and small helpers *)

Axis == 1..3

Sq(x) == x * x

Abs(x) == IF x < 0 THEN -x ELSE x

MinOf(S) == CHOOSE x \in S : \A y \in S : x <= y

MaxOf(S) == CHOOSE x \in S : \A y \in S : x >= y

Dot(u, v) == u[1] * v[1] + u[2] * v[2] + u[3] * v[3]

Sub(u, v) == <<u[1] - v[1], u[2] - v[2], u[3] - v[3]>>

Cross(u, v) ==
    << u[2] * v[3] - u[3] * v[2],
       u[3] * v[1] - u[1] * v[3],
       u[1] * v[2] - u[2] * v[1] >>

DistSq(p, q) == Dot(Sub(p, q), Sub(p, q))

\* np.min(vertices, axis=0) / np.max(vertices, axis=0)
ColMin(vs) == [a \in Axis |-> MinOf({vs[i][a] : i \in DOMAIN vs})]

ColMax(vs) == [a \in Axis |-> MaxOf({vs[i][a] : i \in DOMAIN vs})]

\* number of True entries of a boolean mask (np.sum(mask))
Count(mask) == Cardinality({i \in DOMAIN mask : mask[i]})

RECURSIVE ISqrtFrom(_, _)
ISqrtFrom(n, k) == IF Sq(k + 1) > n THEN k ELSE ISqrtFrom(n, k + 1)

\* floor of the square root of a natural number
ISqrt(n) == ISqrtFrom(n, 0)

RECURSIVE InsertSorted(_, _)
InsertSorted(s, x) ==
    IF s = <<>> THEN <<x>>
    ELSE IF x <= Head(s) THEN <<x>> \o s
    ELSE <<Head(s)>> \o InsertSorted(Tail(s), x)

RECURSIVE SortAsc(_)
\* the values of a sequence in ascending order (np.percentile sorts its input)
SortAsc(s) == IF s = <<>> THEN <<>> ELSE InsertSorted(SortAsc(Tail(s)), Head(s))

\* the sub-sequence of s at the indices where mask holds (s[mask])
RECURSIVE MaskedFrom(_, _, _)
MaskedFrom(s, mask, i) ==
    IF i > Len(s) THEN <<>>
    ELSE (IF mask[i] THEN <<s[i]>> ELSE <<>>) \o MaskedFrom(s, mask, i + 1)

Masked(s, mask) == MaskedFrom(s, mask, 1)

\* non-decreasing sequences of length n over 1..k (one per multiset)
RECURSIVE SortedIdx(_, _)
SortedIdx(n, k) ==
    IF n = 0 THEN {<<>>}
    ELSE {Append(p[1], p[2]) :
             p \in {q \in SortedIdx(n - 1, k) \X (1..k) :
                       q[1] = <<>> \/ q[1][Len(q[1])] <= q[2]}}

----------------------------------------------------------------------------
(* Density filter: GLBPointCloudDensityFilter._apply_density_filter *)

\* point count above which the voxel approximation is used; the code's
\* 200000 is scaled down so that point sets on both sides are reachable
BIG_POINT_THRESHOLD == 4

\* point count below which the all-pairs distance matrix is used when no
\* tree is available; the code's 50000, scaled down likewise
PAIRWISE_MATRIX_LIMIT == 3

\* positions the density filter's points are drawn from
DensityGrid == << <<0, 0, 0>>, <<1, 0, 0>>, <<0, 1, 0>>, <<10, 0, 0>> >>

\* the point sets given to the filter.  The filter treats its points alike
\* (the restore order among equal densities is left open below), so one
\* ordering per multiset of positions is enough.
DensityInputs ==
    UNION {{[i \in 1..n |-> DensityGrid[s[i]]] : s \in SortedIdx(n, Len(DensityGrid))}
              : n \in 1..MaxPoints}

\* density_threshold, in hundredths (0 switches Stage B off)
DensityThresholds == {0, 30, 99}

\* neighborhood_radius, in hundredths
Radii == {50, 100}

\* min_neighbors
MinNeighbors == {1, 2}

\* preserve_core_percentage, in hundredths
CorePercentages == {10, 50, 80, 100}

\* squared bounding-box diagonal
DiagSq(vs) ==
    LET lo == ColMin(vs)
        hi == ColMax(vs)
    IN  Sq(hi[1] - lo[1]) + Sq(hi[2] - lo[2]) + Sq(hi[3] - lo[3])

\* mutant: the adaptive radius ignores the diagonal
RadiusSq_IgnoresDiagonal(vs, radius_c, use_adaptive_radius) ==
    [num |-> Sq(radius_c), den |-> 10000]

\* the squared search radius as a fraction: radius, or radius * diagonal / 10
\* when the radius is adaptive
RadiusSq(vs, radius_c, use_adaptive_radius) ==
    IF use_adaptive_radius
    THEN [num |-> Sq(radius_c) * DiagSq(vs), den |-> 1000000]
    ELSE [num |-> Sq(radius_c), den |-> 10000]

\* which neighbour counting the code runs
Backend(n, scipy_available) ==
    IF n > BIG_POINT_THRESHOLD THEN "voxel"
    ELSE IF scipy_available THEN "kdtree"
    ELSE IF n < PAIRWISE_MATRIX_LIMIT THEN "pairwise_matrix"
    ELSE "pairwise_loop"

\* exact count of the other points within the radius (tree query, distance
\* matrix and per-point loop all compute this)
ExactDensity(vs, r2, i) ==
    Cardinality({j \in DOMAIN vs : DistSq(vs[i], vs[j]) * r2.den <= r2.num}) - 1

\* floor(x / radius) for an offset x >= 0.  With a zero radius every offset
\* is zero too (the radius is zero only for a zero diagonal) and all points
\* get the same key, whatever the cast of nan yields.
VoxelIndex(x, r2) ==
    IF r2.num = 0 THEN 0 ELSE ISqrt((Sq(x) * r2.den) \div r2.num)

VoxelKey(vs, r2, i) ==
    LET lo == ColMin(vs)
    IN  [a \in Axis |-> VoxelIndex(vs[i][a] - lo[a], r2)]

\* population of the point's voxel, minus the point itself
VoxelDensity(vs, r2, i) ==
    Cardinality({j \in DOMAIN vs : VoxelKey(vs, r2, j) = VoxelKey(vs, r2, i)}) - 1

ComputeDensities(vs, r2, backend) ==
    [i \in DOMAIN vs |->
        IF backend = "voxel" THEN VoxelDensity(vs, r2, i) ELSE ExactDensity(vs, r2, i)]

\* mutant of Stage A: min_neighbors off by one
MinNeighborMask_OffByOne(densities, min_neighbors) ==
    [i \in DOMAIN densities |-> densities[i] >= min_neighbors - 1]

\* mutant of Stage A: comparison turned round
MinNeighborMask_Flipped(densities, min_neighbors) ==
    [i \in DOMAIN densities |-> densities[i] <= min_neighbors]

\* Stage A: densities >= min_neighbors
MinNeighborMask(densities, min_neighbors) ==
    [i \in DOMAIN densities |-> densities[i] >= min_neighbors]

\* mutant of Stage B: only densities strictly above the percentile stay
AtLeastPercentile_Strict(d, valid, density_threshold_c) ==
    LET a   == SortAsc(valid)
        n   == Len(a)
        pos == (100 - density_threshold_c) * (n - 1)
        lo  == (pos \div 100) + 1
        hi  == IF lo < n THEN lo + 1 ELSE lo
        rem == pos % 100
    IN  100 * d > 100 * a[lo] + rem * (a[hi] - a[lo])

\* d >= np.percentile(valid, (1 - density_threshold) * 100), with numpy's
\* linear interpolation between the two nearest ranks; both sides times 100
AtLeastPercentile(d, valid, density_threshold_c) ==
    LET a   == SortAsc(valid)
        n   == Len(a)
        pos == (100 - density_threshold_c) * (n - 1)
        lo  == (pos \div 100) + 1
        hi  == IF lo < n THEN lo + 1 ELSE lo
        rem == pos % 100
    IN  100 * d >= 100 * a[lo] + rem * (a[hi] - a[lo])

\* Stage B: percentile pruning among the survivors of Stage A
DensityThresholdMask(densities, keep, density_threshold_c) ==
    IF density_threshold_c > 0 /\ Count(keep) > 0
    THEN LET valid == Masked(densities, keep)
         IN  [i \in DOMAIN densities |->
                 keep[i] /\ AtLeastPercentile(densities[i], valid, density_threshold_c)]
    ELSE keep

\* int(n_points * preserve_core_percentage)
TargetCorePoints(n, core_c) == (n * core_c) \div 100

\* mutant of Stage C: the sparsest excluded points are restored
CoreProtection_RestoresSparsest(densities, keep, core_c) ==
    LET n        == Len(densities)
        current  == Count(keep)
        target   == TargetCorePoints(n, core_c)
        excluded == {i \in DOMAIN keep : ~keep[i]}
    IN  IF core_c < 100 /\ current > 0 /\ current < target /\ excluded # {}
        THEN LET k == IF target - current < Cardinality(excluded)
                      THEN target - current ELSE Cardinality(excluded)
             IN  {[i \in DOMAIN keep |-> keep[i] \/ i \in S] :
                     S \in {T \in SUBSET excluded :
                               /\ Cardinality(T) = k
                               /\ \A i \in T : \A j \in excluded \ T :
                                      densities[i] <= densities[j]}}
        ELSE {keep}

\* Stage C: the masks core protection can produce.  argsort(-densities) uses
\* an unstable sort, so any choice among equal densities is possible: the
\* restored set is any set of the required size that no excluded point
\* outranks.
CoreProtection(densities, keep, core_c) ==
    LET n        == Len(densities)
        current  == Count(keep)
        target   == TargetCorePoints(n, core_c)
        excluded == {i \in DOMAIN keep : ~keep[i]}
    IN  IF core_c < 100 /\ current > 0 /\ current < target /\ excluded # {}
        THEN LET k == IF target - current < Cardinality(excluded)
                      THEN target - current ELSE Cardinality(excluded)
             IN  {[i \in DOMAIN keep |-> keep[i] \/ i \in S] :
                     S \in {T \in SUBSET excluded :
                               /\ Cardinality(T) = k
                               /\ \A i \in T : \A j \in excluded \ T :
                                      densities[i] >= densities[j]}}
        ELSE {keep}

\* the state before any density call
NoDensityCall ==
    [called |-> FALSE, vertices |-> <<>>, density_threshold |-> 0,
     neighborhood_radius |-> 0, min_neighbors |-> 0,
     preserve_core_percentage |-> 0, use_adaptive_radius |-> FALSE,
     scipy_available |-> FALSE, backend |-> "none", densities |-> <<>>,
     after_min_neighbors |-> <<>>, after_threshold |-> <<>>, keep_mask |-> <<>>]

\* the arguments of a density call that is about to run
DensityRequests ==
    {[NoDensityCall EXCEPT !.vertices = vs, !.density_threshold = dt,
                           !.neighborhood_radius = r, !.min_neighbors = m,
                           !.preserve_core_percentage = core,
                           !.use_adaptive_radius = adaptive,
                           !.scipy_available = scipy] :
        vs \in DensityInputs, dt \in DensityThresholds, r \in Radii,
        m \in MinNeighbors, core \in CorePercentages,
        adaptive \in BOOLEAN, scipy \in BOOLEAN}

\* one call of _apply_density_filter on the pending arguments
ApplyDensityFilter ==
    /\ ~density_call.called
    /\ density_call.vertices # <<>>
    /\ LET vs        == density_call.vertices
           backend   == Backend(Len(vs), density_call.scipy_available)
           densities == ComputeDensities(vs,
                            RadiusSq(vs, density_call.neighborhood_radius,
                                     density_call.use_adaptive_radius),
                            backend)
           stageA    == MinNeighborMask(densities, density_call.min_neighbors)
           stageB    == DensityThresholdMask(densities, stageA,
                                             density_call.density_threshold)
       IN  \E final \in CoreProtection(densities, stageB,
                                       density_call.preserve_core_percentage) :
               density_call' =
                   [density_call EXCEPT !.called = TRUE, !.backend = backend,
                                        !.densities = densities,
                                        !.after_min_neighbors = stageA,
                                        !.after_threshold = stageB,
                                        !.keep_mask = final]
    /\ UNCHANGED <<fit_call, align_call, bounds_call, detect_call,
                   filter_call, correct_call, rng>>

----------------------------------------------------------------------------
(* The process-wide random generator (np.random) *)

\* number of generator states of the model
RngMod == 5

RngStates == 0..(RngMod - 1)

\* the generator after one draw
RngNext(s) == (s + 1) % RngMod

\* np.random.seed(42)
Seed42 == 42 % RngMod

\* s without its j-th element
RemoveAt(s, j) == SubSeq(s, 1, j - 1) \o SubSeq(s, j + 1, Len(s))

RECURSIVE ChoiceFrom(_, _, _, _)
ChoiceFrom(s, pool, k, picked) ==
    IF k = 0 THEN [idx |-> picked, state |-> s]
    ELSE LET j == (s % Len(pool)) + 1
         IN  ChoiceFrom(RngNext(s), RemoveAt(pool, j), k - 1, Append(picked, pool[j]))

\* np.random.choice(n, k, replace=False) for k <= n: k distinct indices, a
\* function of the generator's state, and the state after the draws
Choice(s, n, k) == ChoiceFrom(s, [i \in 1..n |-> i], k, <<>>)

----------------------------------------------------------------------------
(* Plane fitter: GLBPointCloudRotationCorrector._ransac_plane_fitting *)

\* largest point set RANSAC iterates over; the code's 50000, scaled down so
\* that point sets on both sides are reachable
max_ransac_points == 4

\* largest inlier set handed to the SVD; the code's 10000, scaled likewise
max_svd_points == 3

\* positions the fitter's points are drawn from: four points in general
\* position, the last one 0.32 away from the plane through the first three
FitGrid == << <<0, 0, 0>>, <<3, 0, 0>>, <<0, 3, 1>>, <<0, 1, 0>> >>

\* the point sets given to the fitter: one ordering per multiset
FitInputs ==
    UNION {{[i \in 1..n |-> FitGrid[s[i]]] : s \in SortedIdx(n, Len(FitGrid))}
              : n \in 0..MaxFitPoints}

\* distance_threshold, in hundredths
DistanceThresholds == {5, 50}

\* min_points
MinPointsValues == {2, 3, 4}

RECURSIVE Gcd(_, _)
Gcd(a, b) == IF b = 0 THEN a ELSE Gcd(b, a % b)

\* the direction of a non-zero integer vector v, as the shortest integer
\* vector along it: two vectors have the same unit vector v / |v| exactly
\* when they have the same direction
Direction(v) ==
    LET g == Gcd(Gcd(Abs(v[1]), Abs(v[2])), Abs(v[3]))
    IN  <<v[1] \div g, v[2] \div g, v[3] \div g>>

\* s[idx] for a sequence of indices
Pick(s, idx) == [i \in DOMAIN idx |-> s[idx[i]]]

\* |dot(q - plane_point, normal)| <= distance_threshold, for the unit normal
\* along dir; both sides squared and scaled
WithinPlane(q, plane_point, dir, threshold_c) ==
    10000 * Sq(Dot(Sub(q, plane_point), dir)) <= Sq(threshold_c) * Dot(dir, dir)

\* np.where(mask)[0]
Where(mask) == Masked([i \in DOMAIN mask |-> i], mask)

\* a normal: none, the unit vector along dir (from a cross product), or the
\* last right singular vector of points - centroid (from the SVD)
NoNormal == [by |-> "none", dir |-> <<0, 0, 0>>, points |-> <<>>]

\* a point as a fraction num / den; den = 0 stands for None
NoPoint == [num |-> <<0, 0, 0>>, den |-> 0]

NoBest == [score |-> 0, normal |-> NoNormal, point |-> NoPoint, inliers |-> <<>>]

\* mutant: a candidate with as many inliers as the best replaces it
RansacRound_TiesReplace(ransac_points, threshold_c, best, s) ==
    LET c      == Choice(s, Len(ransac_points), 3)
        sample == Pick(ransac_points, c.idx)
        normal == Cross(Sub(sample[2], sample[1]), Sub(sample[3], sample[1]))
    IN  IF Dot(normal, normal) = 0
        THEN [best |-> best, state |-> c.state]
        ELSE LET inliers == [i \in DOMAIN ransac_points |->
                                WithinPlane(ransac_points[i], sample[1], normal,
                                            threshold_c)]
             IN  IF Count(inliers) >= best.score
                 THEN [best |-> [score |-> Count(inliers),
                                 normal |-> [by |-> "cross", dir |-> Direction(normal),
                                            points |-> <<>>],
                                 point |-> [num |-> sample[1], den |-> 1],
                                 inliers |-> Where(inliers)],
                       state |-> c.state]
                 ELSE [best |-> best, state |-> c.state]

\* one RANSAC round over ransac_points from generator state s
RansacRound(ransac_points, threshold_c, best, s) ==
    LET c      == Choice(s, Len(ransac_points), 3)
        sample == Pick(ransac_points, c.idx)
        normal == Cross(Sub(sample[2], sample[1]), Sub(sample[3], sample[1]))
    IN  IF Dot(normal, normal) = 0
        THEN [best |-> best, state |-> c.state]
        ELSE LET inliers == [i \in DOMAIN ransac_points |->
                                WithinPlane(ransac_points[i], sample[1], normal,
                                            threshold_c)]
             IN  IF Count(inliers) > best.score
                 THEN [best |-> [score |-> Count(inliers),
                                 normal |-> [by |-> "cross", dir |-> Direction(normal),
                                            points |-> <<>>],
                                 point |-> [num |-> sample[1], den |-> 1],
                                 inliers |-> Where(inliers)],
                       state |-> c.state]
                 ELSE [best |-> best, state |-> c.state]

RECURSIVE RansacLoop(_, _, _, _, _)
\* the rounds that are left; raised is set when np.random.choice cannot take
\* three distinct points
RansacLoop(ransac_points, threshold_c, left, best, s) ==
    IF left = 0 THEN [best |-> best, state |-> s, raised |-> FALSE]
    ELSE IF Len(ransac_points) < 3 THEN [best |-> best, state |-> s, raised |-> TRUE]
    ELSE LET r == RansacRound(ransac_points, threshold_c, best, s)
         IN  RansacLoop(ransac_points, threshold_c, left - 1, r.best, r.state)

\* sum of a sequence of points
RECURSIVE SumPoints(_)
SumPoints(ps) ==
    IF ps = <<>> THEN <<0, 0, 0>>
    ELSE LET t == SumPoints(Tail(ps))
         IN  <<Head(ps)[1] + t[1], Head(ps)[2] + t[2], Head(ps)[3] + t[3]>>

\* np.mean(points, axis=0) as a fraction
Centroid(ps) == [num |-> SumPoints(ps), den |-> Len(ps)]

\* |dot(q - best_point, best_normal)| <= distance_threshold for a RANSAC
\* plane, whose point is an input point
WithinBest(q, best, threshold_c) ==
    WithinPlane(q, best.point.num, best.normal.dir, threshold_c)

\* the empty ransac_info of the early returns
NoInfo ==
    [iterations |-> 0, best_inliers_count |-> 0, used_sampling |-> FALSE,
     ransac_points_count |-> 0, original_points_count |-> 0]

FitFailure(kind) ==
    [kind |-> kind, normal |-> NoNormal, point |-> NoPoint, inliers |-> <<>>,
     info |-> NoInfo]

\* mutant: a failed SVD leaves the RANSAC normal with the refined centroid
Refine_CentroidOnFailure(points, sampled, ransac_points, threshold_c, iterations, best, svd_raises, s) ==
    [result |->
        [kind |-> "Plane", normal |-> best.normal,
         point |-> IF Len(best.inliers) >= 3
                   THEN Centroid(Pick(ransac_points, best.inliers)) ELSE best.point,
         inliers |-> best.inliers,
         info |-> [iterations |-> iterations, best_inliers_count |-> best.score,
                   used_sampling |-> sampled,
                   ransac_points_count |-> Len(ransac_points),
                   original_points_count |-> Len(points)]],
     state |-> s]

\* the refinement and the result, after a search that reached min_points
Refine(points, sampled, ransac_points, threshold_c, iterations, best, svd_raises, s) ==
    IF Len(best.inliers) >= 3
    THEN LET inlier_points ==
                 IF sampled
                 THEN Masked(points, [i \in DOMAIN points |->
                                         WithinBest(points[i], best, threshold_c)])
                 ELSE Pick(ransac_points, best.inliers)
             centroid == Centroid(inlier_points)
             resample == Len(inlier_points) > max_svd_points
             c == IF resample THEN Choice(s, Len(inlier_points), max_svd_points)
                  ELSE [idx |-> <<>>, state |-> s]
             sampled_points == IF resample THEN Pick(inlier_points, c.idx)
                               ELSE inlier_points
         IN  [result |->
                 [kind |-> "Plane",
                  normal |-> IF svd_raises THEN best.normal
                             ELSE [by |-> "svd", dir |-> <<0, 0, 0>>,
                                   points |-> [i \in DOMAIN sampled_points |->
                                       [num |-> Sub([a \in Axis |->
                                                       sampled_points[i][a] * centroid.den],
                                                    centroid.num),
                                        den |-> centroid.den]]],
                  point |-> IF svd_raises THEN best.point ELSE centroid,
                  inliers |-> best.inliers,
                  info |-> [iterations |-> iterations,
                            best_inliers_count |-> Len(inlier_points),
                            used_sampling |-> sampled \/ resample,
                            ransac_points_count |-> Len(ransac_points),
                            original_points_count |-> Len(points)]],
              state |-> c.state]
    ELSE [result |->
             [kind |-> "Plane", normal |-> best.normal, point |-> best.point,
              inliers |-> best.inliers,
              info |-> [iterations |-> iterations,
                        best_inliers_count |-> best.score,
                        used_sampling |-> sampled,
                        ransac_points_count |-> Len(ransac_points),
                        original_points_count |-> Len(points)]],
          state |-> s]

\* the sub-sample drawn for the search when the point set exceeds the cap;
\* it is drawn before the generator is seeded
SearchSample(points, s) ==
    IF Len(points) > max_ransac_points
    THEN LET c == Choice(s, Len(points), max_ransac_points)
         IN  [sampled |-> TRUE, idx |-> c.idx, state |-> c.state]
    ELSE [sampled |-> FALSE, idx |-> <<>>, state |-> s]

\* mutant: the search result is refined whatever its score
RansacPlaneFitting_NoScoreCheck(points, iterations, threshold_c, min_points, svd_raises, s) ==
    IF Len(points) < min_points
    THEN [result |-> FitFailure("InsufficientPoints"), state |-> s]
    ELSE LET sub == SearchSample(points, s)
             ransac_points == IF sub.sampled THEN Pick(points, sub.idx)
                              ELSE points
             loop == RansacLoop(ransac_points, threshold_c, iterations, NoBest, Seed42)
         IN  IF loop.raised
             THEN [result |-> FitFailure("Raised"), state |-> loop.state]
             ELSE Refine(points, sub.sampled, ransac_points, threshold_c, iterations,
                         loop.best, svd_raises, loop.state)

\* the whole of _ransac_plane_fitting: the result, and the generator's state
\* when the call ends.  kind is "InsufficientPoints" and "FitFailed" for the
\* two early returns (which differ in the message logged), "Raised" when an
\* exception leaves the function, "Plane" for the final return.
RansacPlaneFitting(points, iterations, threshold_c, min_points, svd_raises, s) ==
    IF Len(points) < min_points
    THEN [result |-> FitFailure("InsufficientPoints"), state |-> s]
    ELSE LET sub == SearchSample(points, s)
             ransac_points == IF sub.sampled THEN Pick(points, sub.idx)
                              ELSE points
             loop == RansacLoop(ransac_points, threshold_c, iterations, NoBest, Seed42)
         IN  IF loop.raised
             THEN [result |-> FitFailure("Raised"), state |-> loop.state]
             ELSE IF loop.best.score < min_points
             THEN [result |-> FitFailure("FitFailed"), state |-> loop.state]
             ELSE Refine(points, sub.sampled, ransac_points, threshold_c, iterations,
                         loop.best, svd_raises, loop.state)

\* the state before any fitter call
NoFitCall ==
    [calls |-> 0, points |-> <<>>, iterations |-> 0, distance_threshold |-> 0,
     min_points |-> 0, svd_raises |-> FALSE, first |-> FitFailure("none"),
     result |-> FitFailure("none"), rng_before |-> 0]

\* the arguments of the fitter calls that are about to run; svd_raises tells
\* whether np.linalg.svd raises on these arguments
FitRequests ==
    {[NoFitCall EXCEPT !.points = ps, !.iterations = it,
                       !.distance_threshold = th, !.min_points = mp,
                       !.svd_raises = sr] :
        ps \in FitInputs, it \in 0..MaxIterations, th \in DistanceThresholds,
        mp \in MinPointsValues, sr \in BOOLEAN}

\* one call of _ransac_plane_fitting on the pending arguments; the same
\* arguments are fitted at most twice
FitPlane ==
    /\ fit_call.calls < 2
    /\ fit_call.min_points > 0
    /\ LET r == RansacPlaneFitting(fit_call.points, fit_call.iterations,
                                   fit_call.distance_threshold,
                                   fit_call.min_points, fit_call.svd_raises, rng)
       IN  /\ fit_call' =
                  [fit_call EXCEPT !.calls = @ + 1,
                                   !.first = IF fit_call.calls = 0 THEN r.result ELSE @,
                                   !.result = r.result,
                                   !.rng_before = rng]
           /\ rng' = r.state
    /\ UNCHANGED <<density_call, align_call, bounds_call, detect_call,
                   filter_call, correct_call>>

\* a draw from the generator by other code of the process between two fits
\* (the bounds visualisation draws np.random.uniform)
OtherRandomDraw ==
    /\ fit_call.calls = 1
    /\ rng' = RngNext(rng)
    /\ UNCHANGED <<density_call, fit_call, align_call, bounds_call,
                   detect_call, filter_call, correct_call>>

----------------------------------------------------------------------------
(* Rotation solver: GLBPointCloudRotationCorrector._calculate_rotation_transform *)

\* A direction is a unit vector num / den with integer num and den > 0.  The
\* normal handed to the solver is scale * direction, so that dividing it by
\* its norm gives the direction back; matrices are num / den likewise.

\* directions with small components
SmallDirections ==
    {[num |-> v, den |-> 1] :
        v \in {<<0, 0, 1>>, <<0, 0, -1>>, <<0, 1, 0>>, <<0, -1, 0>>, <<1, 0, 0>>}}
    \cup {[num |-> v, den |-> 3] : v \in {<<1, 2, 2>>, <<2, -2, 1>>, <<-2, -1, -2>>}}
    \cup {[num |-> v, den |-> 5] : v \in {<<0, 3, 4>>, <<4, 0, -3>>, <<3, 4, 0>>}}
    \cup {[num |-> v, den |-> 7] : v \in {<<2, 3, 6>>, <<6, -2, 3>>, <<-3, -6, 2>>}}

UpAxes == {"Z", "Y", "-Y"}

\* directions less than 1e-6 (in dot product) from an up direction or from
\* its opposite, without being equal to it, each with the up_axis it is near
NearDirections ==
    {[dir |-> [num |-> <<1415, 0, 1001112>>, den |-> 1001113], up_axis |-> "Z"],
     [dir |-> [num |-> <<1415, 0, -1001112>>, den |-> 1001113], up_axis |-> "Z"],
     [dir |-> [num |-> <<1415, 1001112, 0>>, den |-> 1001113], up_axis |-> "Y"],
     [dir |-> [num |-> <<0, -1001112, 1415>>, den |-> 1001113], up_axis |-> "Y"],
     [dir |-> [num |-> <<0, -1001112, 1415>>, den |-> 1001113], up_axis |-> "-Y"],
     [dir |-> [num |-> <<1415, 1001112, 0>>, den |-> 1001113], up_axis |-> "-Y"]}

\* lengths of the normals handed to the solver
NormalScales == {1, 2}

\* ground reference points
ReferencePoints == {<<0, 0, 0>>, <<1, 2, 3>>, <<-2, 4, -5>>}

\* mutant: -Y is given the +Y target
TargetNormal_MinusYAsY(up_axis) ==
    IF up_axis = "Z" THEN <<0, 0, 1>>
    ELSE IF up_axis = "Y" THEN <<0, 1, 0>>
    ELSE IF up_axis = "-Y" THEN <<0, 1, 0>>
    ELSE <<0, 0, 1>>

\* target_normal of the up_axis (any other value is treated as Z)
TargetNormal(up_axis) ==
    IF up_axis = "Z" THEN <<0, 0, 1>>
    ELSE IF up_axis = "Y" THEN <<0, 1, 0>>
    ELSE IF up_axis = "-Y" THEN <<0, -1, 0>>
    ELSE <<0, 0, 1>>

\* mutant: the height axis is always Z
HeightAxis_AlwaysZ(up_axis) == 3

\* height_axis of the up_axis, as an index of 1..3
HeightAxis(up_axis) ==
    IF up_axis = "Z" THEN 3
    ELSE IF up_axis = "Y" THEN 2
    ELSE IF up_axis = "-Y" THEN 2
    ELSE 3

\* ground_normal / np.linalg.norm(ground_normal), for ground_normal = scale * dir
Normalized(scale, dir) == dir

Identity3 == << <<1, 0, 0>>, <<0, 1, 0>>, <<0, 0, 1>> >>

\* matrix times vector, matrix times matrix, on numerators
MatVec(m, v) == [i \in Axis |-> Dot(m[i], v)]

MatMul(m, k) == [i \in Axis |-> [j \in Axis |-> m[i][1] * k[1][j] + m[i][2] * k[2][j]
                                               + m[i][3] * k[3][j]]]

\* the skew-symmetric cross-product matrix K of a vector
Skew(k) == << <<0, -k[3], k[2]>>, <<k[3], 0, -k[1]>>, <<-k[2], k[1], 0>> >>

\* |x - 1| < 1e-6 for x = num / den, den > 0
WithinTolerance(num, den) == Abs(num - den) <= (den - 1) \div 1000000

\* an angle, kept as the arguments of the arctan2 that yields it: the angle
\* of the point (x, y), or of (sqrt(x), y) when root holds
ZeroAngle == [y |-> 0, x |-> 1, root |-> FALSE]

\* np.pi
PiAngle == [y |-> 0, x |-> -1, root |-> FALSE]

\* np.arctan2(y, x); a common positive factor of y and x changes nothing
ArcTan2(y, x) ==
    IF y = 0 THEN (IF x >= 0 THEN ZeroAngle ELSE PiAngle)
    ELSE LET g == Gcd(Abs(y), Abs(x))
         IN  [y |-> y \div g, x |-> x \div g, root |-> FALSE]

\* np.arctan2(y, sqrt(xx)) for xx >= 0
ArcTan2Root(y, xx) ==
    IF y = 0 THEN ZeroAngle ELSE [y |-> y, x |-> xx, root |-> TRUE]

\* _rotation_matrix_to_euler_angles on the numerators of R (the denominator
\* is a common positive factor of every pair of arguments).  sy < 1e-6 holds
\* only for sy = 0: the denominators of the model are below 1e6.
RotationMatrixToEulerAngles(R) ==
    LET sy2 == Sq(R[1][1]) + Sq(R[2][1])
    IN  IF sy2 # 0
        THEN << ArcTan2(R[3][2], R[3][3]), ArcTan2Root(-R[3][1], sy2),
                ArcTan2(R[2][1], R[1][1]) >>
        ELSE << ArcTan2(-R[2][3], R[2][2]), ArcTan2Root(-R[3][1], sy2), ZeroAngle >>

\* mutant of Rodrigues' formula: the sine term with the wrong sign
Rodrigues_NegatedSine(v, n, t) ==
    LET cv == Cross(v, t)
        cc == Dot(cv, cv)
        dn == Dot(v, t)
        S  == Skew(cv)
        S2 == MatMul(S, S)
    IN  [num |-> [i \in Axis |-> [j \in Axis |->
                     n * cc * Identity3[i][j] - cc * S[i][j] + (n - dn) * S2[i][j]]],
         den |-> n * cc]

\* Rodrigues' formula R = I + sin(a) K + (1 - cos(a)) K^2 for the unit normal
\* v / n and the target t, where the axis is their normalised cross product
\* and a = arccos(dot).  With cv = v x t and cc = |cv|^2: K = Skew(cv) / |cv|,
\* cos(a) = (v . t) / n and sin(a) = |cv| / n, so that
\*     R = I + Skew(cv) / n + (n - v.t) Skew(cv)^2 / (n cc).
Rodrigues(v, n, t) ==
    LET cv == Cross(v, t)
        cc == Dot(cv, cv)
        dn == Dot(v, t)
        S  == Skew(cv)
        S2 == MatMul(S, S)
    IN  [num |-> [i \in Axis |-> [j \in Axis |->
                     n * cc * Identity3[i][j] + cc * S[i][j] + (n - dn) * S2[i][j]]],
         den |-> n * cc]

\* the 180 degree rotation about an axis perpendicular to the normal:
\* 2 a a^T - I for the unit vector a along normal x perp
HalfTurn(v) ==
    LET perp == IF 10 * Abs(v.num[1]) < 9 * v.den THEN <<1, 0, 0>> ELSE <<0, 1, 0>>
        c    == Cross(v.num, perp)
        cc   == Dot(c, c)
    IN  [num |-> [i \in Axis |-> [j \in Axis |->
                     2 * c[i] * c[j] - cc * Identity3[i][j]]],
         den |-> cc]

\* (1 - num / den) <= 0.0038: a cosine of at least 0.9962, which is an angle
\* below 5 degrees (cos 5 deg = 0.99619...)
CosineWithin5Degrees(num, den) == den - num <= (38 * den) \div 10000

\* the rotation and its Euler angles, by the three branches of the solver
SolveRotation(g, t) ==
    LET dn == Dot(g.num, t)
    IN  IF WithinTolerance(dn, g.den)
        THEN [branch |-> "aligned",
              rotation_matrix |-> [num |-> Identity3, den |-> 1],
              rotation_angles |-> <<ZeroAngle, ZeroAngle, ZeroAngle>>]
        ELSE IF WithinTolerance(-dn, g.den)
        THEN [branch |-> "antiparallel",
              rotation_matrix |->
                  [num |-> << <<1, 0, 0>>, <<0, -1, 0>>, <<0, 0, -1>> >>, den |-> 1],
              rotation_angles |-> <<PiAngle, ZeroAngle, ZeroAngle>>]
        ELSE LET cv == Cross(g.num, t)
                 R  == IF Dot(cv, cv) = 0
                       THEN (IF dn > 0 THEN [num |-> Identity3, den |-> 1]
                             ELSE HalfTurn(g))
                       ELSE Rodrigues(g.num, g.den, t)
             IN  [branch |-> "general",
                  rotation_matrix |-> R,
                  rotation_angles |-> RotationMatrixToEulerAngles(R.num)]

\* the whole of _calculate_rotation_transform for the normal scale * dir.
\* transform_matrix is the rotation with a translation column (the last row
\* is 0 0 0 1); warned tells whether the misalignment warning was logged.
CalculateRotationTransform(scale, dir, ground_point, up_axis) ==
    LET t   == TargetNormal(up_axis)
        h   == HeightAxis(up_axis)
        g   == Normalized(scale, dir)
        sol == SolveRotation(g, t)
        R   == sol.rotation_matrix
        rotated_normal == [num |-> MatVec(R.num, g.num), den |-> R.den * g.den]
        rotated_ground_point == [num |-> MatVec(R.num, ground_point), den |-> R.den]
    IN  [branch |-> sol.branch,
         rotation_matrix |-> R,
         rotation_angles |-> sol.rotation_angles,
         transform_matrix |->
             [rotation |-> R,
              translation |->
                  [num |-> [a \in Axis |->
                               IF a = h THEN -rotated_ground_point.num[a] ELSE 0],
                   den |-> R.den]],
         warned |-> ~CosineWithin5Degrees(rotated_normal.num[3], rotated_normal.den)]

\* the state before any solver call
NoAlignCall ==
    [called |-> FALSE, scale |-> 0, dir |-> [num |-> <<0, 0, 0>>, den |-> 1],
     ground_point |-> <<0, 0, 0>>, up_axis |-> "none", branch |-> "none",
     rotation_matrix |-> [num |-> Identity3, den |-> 1],
     rotation_angles |-> <<ZeroAngle, ZeroAngle, ZeroAngle>>,
     transform_matrix |-> [rotation |-> [num |-> Identity3, den |-> 1],
                           translation |-> [num |-> <<0, 0, 0>>, den |-> 1]],
     warned |-> FALSE]

\* the arguments of a solver call that is about to run
AlignRequests ==
    {[NoAlignCall EXCEPT !.scale = k, !.dir = d.dir, !.up_axis = d.up_axis,
                         !.ground_point = p] :
        k \in NormalScales, p \in ReferencePoints,
        d \in NearDirections
              \cup {[dir |-> v, up_axis |-> u] : v \in SmallDirections, u \in UpAxes}}

\* one call of _calculate_rotation_transform on the pending arguments
AlignToUp ==
    /\ ~align_call.called
    /\ align_call.scale > 0
    /\ LET r == CalculateRotationTransform(align_call.scale, align_call.dir,
                                           align_call.ground_point,
                                           align_call.up_axis)
       IN  align_call' =
               [align_call EXCEPT !.called = TRUE, !.branch = r.branch,
                                  !.rotation_matrix = r.rotation_matrix,
                                  !.rotation_angles = r.rotation_angles,
                                  !.transform_matrix = r.transform_matrix,
                                  !.warned = r.warned]
    /\ UNCHANGED <<density_call, fit_call, bounds_call, detect_call,
                   filter_call, correct_call, rng>>

----------------------------------------------------------------------------
(* Bounding volumes: GLBPointCloudBounds.calculate_bounds_and_visualize *)

\* positions the vertices of a node are drawn from
BoundsGrid == << <<1, -2, 3>>, <<-1, 4, 2>> >>

\* the vertex arrays a node can carry, the empty one included
NodeVertices ==
    {<<>>, <<BoundsGrid[1]>>, <<BoundsGrid[2]>>, <<BoundsGrid[1], BoundsGrid[2]>>}

\* node transforms as a 3x3 matrix and a translation: the identity, a
\* translation, and a quarter turn about Z with a translation
IdentityTransform == [matrix |-> Identity3, offset |-> <<0, 0, 0>>]

NodeTransforms ==
    {IdentityTransform,
     [matrix |-> Identity3, offset |-> <<5, 0, -7>>],
     [matrix |-> << <<0, -1, 0>>, <<1, 0, 0>>, <<0, 0, 1>> >>, offset |-> <<0, 2, 0>>]}

\* the scenes: one to MaxNodes nodes with vertices
Scenes ==
    UNION {[1..n -> [vertices : NodeVertices, transform : NodeTransforms]]
              : n \in 1..MaxNodes}

\* the unit multipliers offered by the node
UnitValues == {1, 100}

\* what trimesh.bounds.oriented_bounds can answer when it does not raise:
\* the library's centre and extents, not computed here
OrientedAnswers ==
    {[center |-> [num |-> <<0, 2, 5>>, den |-> 2], extents |-> <<2, 6, 1>>],
     [center |-> [num |-> <<1, 1, 1>>, den |-> 1], extents |-> <<3, 3, 3>>]}

\* trimesh.transformations.transform_points for one point
ApplyNodeTransform(T, p) ==
    [a \in Axis |-> Dot(T.matrix[a], p) + T.offset[a]]

\* the world vertices of a node: transformed unless the transform is (close
\* to) the identity
WorldVertices(node) ==
    IF node.transform # IdentityTransform
    THEN [i \in DOMAIN node.vertices |-> ApplyNodeTransform(node.transform, node.vertices[i])]
    ELSE node.vertices

RECURSIVE StackFrom(_, _)
StackFrom(scene, i) ==
    IF i > Len(scene) THEN <<>>
    ELSE WorldVertices(scene[i]) \o StackFrom(scene, i + 1)

\* np.vstack(all_vertices)
CombinedVertices(scene) == StackFrom(scene, 1)

\* mutant: the centre is taken as the minimum corner
AxisAlignedBox_CenterAtMin(vs) ==
    LET min_point == ColMin(vs)
        max_point == ColMax(vs)
    IN  [min_point |-> min_point, max_point |-> max_point,
         extents |-> [a \in Axis |-> max_point[a] - min_point[a]],
         center |-> [num |-> [a \in Axis |-> 2 * min_point[a]], den |-> 2]]

\* the axis-aligned box: min, max, extents = max - min, center = (min + max) / 2
AxisAlignedBox(vs) ==
    LET min_point == ColMin(vs)
        max_point == ColMax(vs)
    IN  [min_point |-> min_point, max_point |-> max_point,
         extents |-> [a \in Axis |-> max_point[a] - min_point[a]],
         center |-> [num |-> [a \in Axis |-> min_point[a] + max_point[a]], den |-> 2]]

\* the tuple handed back to the caller: the path of the visualisation file
\* and the scale JSON with its two keys
BoundsReturn(path, name, scaled_extents) ==
    [output_glb_path |-> path,
     scale_json |-> [name |-> name, scale |-> scaled_extents]]

\* the ("", "") of the error paths
BoundsErrorReturn == [output_glb_path |-> "", scale_json |-> ""]

\* random draws of the bounding-box visualisation with enhanced visibility:
\* three per highlight point, around 8 corners and 6 face centres
VisualizationDraws(wireframe_density) ==
    LET highlight == IF wireframe_density \div 10 > 5 THEN wireframe_density \div 10 ELSE 5
        face_mark == IF wireframe_density \div 20 > 3 THEN wireframe_density \div 20 ELSE 3
    IN  3 * (8 * highlight + 6 * face_mark)

\* the state before any bounds call
NoBoundsCall ==
    [called |-> FALSE, scene |-> <<>>, bounding_box_type |-> "none", units |-> 0,
     enhance_visibility |-> FALSE, wireframe_density |-> 0,
     combined_vertices |-> <<>>, outcome |-> "none", obb_failed |-> FALSE,
     min_point |-> <<0, 0, 0>>, max_point |-> <<0, 0, 0>>,
     extents |-> <<0, 0, 0>>, center |-> [num |-> <<0, 0, 0>>, den |-> 1],
     fallback_logged |-> FALSE, returned |-> BoundsErrorReturn]

\* the arguments of a bounds call that is about to run
BoundsRequests ==
    {[NoBoundsCall EXCEPT !.scene = sc, !.bounding_box_type = k, !.units = u,
                          !.enhance_visibility = ev, !.wireframe_density = 50] :
        sc \in Scenes, k \in {"axis_aligned", "oriented"}, u \in UnitValues,
        ev \in BOOLEAN}

\* the call ends in the error return: np.min of an empty array raised
BoundsFails(vs) ==
    /\ bounds_call' = [bounds_call EXCEPT !.called = TRUE, !.combined_vertices = vs,
                                          !.outcome = "error",
                                          !.returned = BoundsErrorReturn]
    /\ UNCHANGED rng

\* the call ends with a box: visualisation (which draws from the generator
\* when visibility is enhanced, and may fail, leaving an empty path) and the
\* return of the scale JSON
BoundsReturns(vs, box, obb_failed, logged) ==
    \E visualization_ok \in BOOLEAN :
        /\ bounds_call' =
               [bounds_call EXCEPT
                    !.called = TRUE, !.combined_vertices = vs, !.outcome = "ok",
                    !.obb_failed = obb_failed,
                    !.min_point = box.min_point, !.max_point = box.max_point,
                    !.extents = box.extents, !.center = box.center,
                    !.fallback_logged = logged,
                    !.returned =
                        BoundsReturn(IF visualization_ok THEN "output.glb" ELSE "",
                                     "pointcloud_with_bounds",
                                     [a \in Axis |-> box.extents[a] * bounds_call.units])]
        /\ rng' = IF bounds_call.enhance_visibility
                  THEN (rng + VisualizationDraws(bounds_call.wireframe_density)) % RngMod
                  ELSE rng

\* one call of calculate_bounds_and_visualize on the pending arguments (the
\* bounding-box visualisation and the coordinate axes are switched on)
CalculateBounds ==
    /\ ~bounds_call.called
    /\ bounds_call.scene # <<>>
    /\ LET vs == CombinedVertices(bounds_call.scene)
       IN  IF bounds_call.bounding_box_type = "axis_aligned"
           THEN IF vs = <<>> THEN BoundsFails(vs)
                ELSE BoundsReturns(vs, AxisAlignedBox(vs), FALSE, FALSE)
           ELSE \/ \E answer \in OrientedAnswers :
                       /\ vs # <<>>
                       /\ BoundsReturns(vs,
                              [min_point |-> <<0, 0, 0>>, max_point |-> <<0, 0, 0>>,
                               extents |-> answer.extents, center |-> answer.center],
                              FALSE, FALSE)
                \/ IF vs = <<>> THEN BoundsFails(vs)
                   ELSE BoundsReturns(vs, AxisAlignedBox(vs), TRUE, TRUE)
    /\ UNCHANGED <<density_call, fit_call, align_call, detect_call,
                   filter_call, correct_call>>

----------------------------------------------------------------------------
(* Ground detection: GLBPointCloudRotationCorrector._detect_ground_plane *)

\* positions the detector's vertices are drawn from
DetectGrid ==
    << <<0, 0, 0>>, <<3, 0, 0>>, <<0, 3, 0>>, <<0, 0, 3>>, <<3, 3, 0>>, <<3, 1, 2>> >>

\* increasing index sequences of length n over 1..k (one per subset)
RECURSIVE IncreasingIdx(_, _)
IncreasingIdx(n, k) ==
    IF n = 0 THEN {<<>>}
    ELSE {Append(x[1], x[2]) :
             x \in {y \in IncreasingIdx(n - 1, k) \X (1..k) :
                       n = 1 \/ y[1][n - 1] < y[2]}}

\* the vertex arrays given to the detector: the subsets of the grid of at
\* most MaxDetectPoints points, in grid order
DetectInputs ==
    UNION {{[i \in 1..n |-> DetectGrid[q[i]]] : q \in IncreasingIdx(n, Len(DetectGrid))}
              : n \in 1..MaxDetectPoints}

\* ground_detection_method: the five the node offers and one it does not
DetectMethods ==
    {"lowest_plane", "height_based", "debug_mode", "simple_test", "ransac_full",
     "nearest_floor"}

\* up_axis: the three the node offers and one it does not
DetectUpAxes == {"Z", "Y", "-Y", "X"}

\* ground_height_percentile, in hundredths
HeightPercentiles == {10, 50}

\* ransac_iterations
DetectIterations == {1, 3}

\* min_ground_points
MinGroundPoints == {3, 4}

\* ransac_threshold, in hundredths
DetectThreshold == 5

\* height_axis of the detector, as an index of 1..3 (any other up_axis is
\* treated as Z)
DetectHeightAxis(up_axis) ==
    IF up_axis = "Z" THEN 3
    ELSE IF up_axis = "Y" THEN 2
    ELSE IF up_axis = "-Y" THEN 2
    ELSE 3

\* vertices[:, axis]
Column(vs, axis) == [i \in DOMAIN vs |-> vs[i][axis]]

\* the values of a non-empty sequence, as a set
Values(s) == {s[i] : i \in DOMAIN s}

\* the band of the lowest_plane method: within 5% of the range from the
\* highest value for up_axis -Y, from the lowest value otherwise
LowestBandMask(vs, up_axis) ==
    LET h  == Column(vs, DetectHeightAxis(up_axis))
        lo == MinOf(Values(h))
        hi == MaxOf(Values(h))
    IN  IF up_axis = "-Y"
        THEN [i \in DOMAIN vs |-> 100 * h[i] >= 100 * hi - 5 * (hi - lo)]
        ELSE [i \in DOMAIN vs |-> 100 * h[i] <= 100 * lo + 5 * (hi - lo)]

\* z <= np.percentile(values, height_percentile * 100), with numpy's linear
\* interpolation between the two nearest ranks; both sides times 100
AtMostPercentile(z, values, percentile_c) ==
    LET a   == SortAsc(values)
        n   == Len(a)
        pos == percentile_c * (n - 1)
        lo  == (pos \div 100) + 1
        hi  == IF lo < n THEN lo + 1 ELSE lo
        rem == pos % 100
    IN  100 * z <= 100 * a[lo] + rem * (a[hi] - a[lo])

\* the candidates of the height_based method: Z at or below the percentile
\* of Z, whatever the up_axis
HeightBasedMask(vs, percentile_c) ==
    LET z_values == Column(vs, 3)
    IN  [i \in DOMAIN vs |-> AtMostPercentile(z_values[i], z_values, percentile_c)]

\* the band of one axis in debug_mode (5%) and of Z in simple_test (10%):
\* within band_c hundredths of the range from the lowest value
AxisBandMask(vs, axis, band_c) ==
    LET h  == Column(vs, axis)
        lo == MinOf(Values(h))
        hi == MaxOf(Values(h))
    IN  [i \in DOMAIN vs |-> 100 * h[i] <= 100 * lo + band_c * (hi - lo)]

\* unit vectors a decomposition may return when the points do not fix the
\* normal up to sign, as integer directions
DirectionPool ==
    {<<1, 0, 0>>, <<-1, 0, 0>>, <<0, 1, 0>>, <<0, -1, 0>>, <<0, 0, 1>>, <<0, 0, -1>>,
     <<1, 2, 2>>, <<-1, -2, -2>>, <<2, -2, 1>>, <<-2, 2, -1>>}

\* the directions perpendicular to every one of the centred points cs; for
\* points spanning a plane these are the two unit normals of the plane
PlaneNormals(cs) ==
    LET pairs == {pr \in (DOMAIN cs) \X (DOMAIN cs) :
                     Cross(cs[pr[1]], cs[pr[2]]) # <<0, 0, 0>>}
    IN  IF pairs = {} THEN {}
        ELSE LET pr == CHOOSE x \in pairs : TRUE
                 n  == Direction(Cross(cs[pr[1]], cs[pr[2]]))
             IN  IF \A i \in DOMAIN cs : Dot(cs[i], n) = 0
                 THEN {n, <<-n[1], -n[2], -n[3]>>}
                 ELSE {}

\* the direction of least variance of centred points (last right singular
\* vector, or eigenvector of the smallest eigenvalue): a normal of their
\* plane, of either sign, when they span one; not determined here otherwise
LeastVarianceDirections(cs) ==
    IF PlaneNormals(cs) # {} THEN PlaneNormals(cs) ELSE DirectionPool

\* the unit vectors a fitter normal can stand for
NormalVectors(normal) ==
    IF normal.by = "cross" THEN {normal.dir}
    ELSE IF normal.by = "svd"
    THEN LeastVarianceDirections([i \in DOMAIN normal.points |-> normal.points[i].num])
    ELSE {}

\* points - centroid, times the number of points
Centered(ps) ==
    [i \in DOMAIN ps |-> Sub([a \in Axis |-> ps[i][a] * Len(ps)], SumPoints(ps))]

\* the outcome of a fit inside the detector: best_normal is None or not,
\* and what the plane is
NoFit ==
    [found |-> FALSE, raised |-> FALSE, normal |-> NoNormal, point |-> NoPoint,
     inliers |-> <<>>, score |-> 0]

FitOutcome(r) ==
    IF r.result.kind = "Plane"
    THEN [found |-> TRUE, raised |-> FALSE, normal |-> r.result.normal,
          point |-> r.result.point, inliers |-> r.result.inliers,
          score |-> r.result.info.best_inliers_count]
    ELSE [NoFit EXCEPT !.raised = (r.result.kind = "Raised")]

\* debug_mode keeps a candidate fit only with strictly more inliers than
\* the best so far
BetterFit(f, best) == IF f.found /\ f.score > best.score THEN f ELSE best

RECURSIVE DebugModeFrom(_, _, _, _, _, _, _)
RECURSIVE DebugModeAfter(_, _, _, _, _, _, _)
\* debug_mode: each axis in turn as the height axis, its 5% band fitted
\* with a third of the rounds when it holds enough points
DebugModeFrom(vs, axis, iterations, min_ground_points, svd_raises, best, s) ==
    IF axis > 3 THEN [fit |-> best, state |-> s]
    ELSE IF Len(Masked(vs, AxisBandMask(vs, axis, 5))) < min_ground_points
    THEN DebugModeFrom(vs, axis + 1, iterations, min_ground_points, svd_raises, best, s)
    ELSE DebugModeAfter(vs, axis, iterations, min_ground_points, svd_raises, best,
                        RansacPlaneFitting(Masked(vs, AxisBandMask(vs, axis, 5)),
                                           iterations \div 3, DetectThreshold,
                                           min_ground_points, svd_raises, s))

\* debug_mode after the fit r of one axis: an exception ends the search,
\* otherwise the next axis follows
DebugModeAfter(vs, axis, iterations, min_ground_points, svd_raises, best, r) ==
    IF r.result.kind = "Raised" THEN [fit |-> FitOutcome(r), state |-> r.state]
    ELSE DebugModeFrom(vs, axis + 1, iterations, min_ground_points, svd_raises,
                       BetterFit(FitOutcome(r), best), r.state)

\* the ground candidates of a method before any retry; debug_mode leaves
\* the band of its last axis, ransac_full and any other method take all
DetectCandidates(vs, method, percentile_c, up_axis) ==
    IF method = "lowest_plane" THEN Masked(vs, LowestBandMask(vs, up_axis))
    ELSE IF method = "height_based" THEN Masked(vs, HeightBasedMask(vs, percentile_c))
    ELSE IF method = "debug_mode" THEN Masked(vs, AxisBandMask(vs, 3, 5))
    ELSE IF method = "simple_test" THEN Masked(vs, AxisBandMask(vs, 3, 10))
    ELSE vs

\* what a search reports: outcome is "fit" when a fit decides, "few" for
\* the return on too few candidates, "raised" when an exception leaves the
\* function
SearchOf(outcome, retried, cands, f, s) ==
    [outcome |-> outcome, retried |-> retried, candidates |-> cands, fit |-> f,
     state |-> s]

\* the search decided by the fit r of the candidates
FittedSearch(cands, r) == SearchOf("fit", FALSE, cands, FitOutcome(r), r.state)

\* the plane of simple_test: the centroid and the direction of least
\* variance of the candidates, every candidate an inlier
PcaFit(cands) ==
    [found |-> TRUE, raised |-> FALSE,
     normal |-> [by |-> "svd", dir |-> <<0, 0, 0>>,
                 points |-> [i \in DOMAIN cands |->
                                [num |-> Centered(cands)[i], den |-> Len(cands)]]],
     point |-> Centroid(cands),
     inliers |-> [i \in DOMAIN cands |-> i],
     score |-> Len(cands)]

\* the search decided by the fits d of debug_mode
FittedDebug(cands, d) == SearchOf("fit", FALSE, cands, d.fit, d.state)

\* the search of the detector on the candidates of its method.  The retry
\* of lowest_plane reads z_values and z_min, which are not bound on that
\* path: it raises.
DetectSearchOn(vs, cands, method, iterations, min_ground_points, svd_raises, s) ==
    IF method = "lowest_plane" /\ Len(cands) < min_ground_points
    THEN SearchOf("raised", TRUE, cands, NoFit, s)
    ELSE IF method = "height_based" /\ Len(cands) < min_ground_points
    THEN SearchOf("few", FALSE, cands, NoFit, s)
    ELSE IF method = "debug_mode"
    THEN FittedDebug(cands, DebugModeFrom(vs, 1, iterations, min_ground_points,
                                          svd_raises, NoFit, s))
    ELSE IF method = "simple_test"
    THEN IF Len(cands) >= 3 THEN SearchOf("fit", FALSE, cands, PcaFit(cands), s)
         ELSE SearchOf("few", FALSE, cands, NoFit, s)
    ELSE FittedSearch(cands, RansacPlaneFitting(cands, iterations, DetectThreshold,
                                                min_ground_points, svd_raises, s))

\* the search of the detector by method
DetectSearch(vs, method, percentile_c, iterations, min_ground_points, up_axis, svd_raises, s) ==
    DetectSearchOn(vs, DetectCandidates(vs, method, percentile_c, up_axis), method,
                   iterations, min_ground_points, svd_raises, s)

\* mutant: the normal is never turned
OrientNormal_NoFlip(n, up_axis) == n

\* the normal turned to the up side: negated when it points down for Z and
\* Y, up for -Y; left alone for any other up_axis
OrientNormal(n, up_axis) ==
    IF up_axis = "Z" /\ n[3] < 0 THEN <<-n[1], -n[2], -n[3]>>
    ELSE IF up_axis = "Y" /\ n[2] < 0 THEN <<-n[1], -n[2], -n[3]>>
    ELSE IF up_axis = "-Y" /\ n[2] > 0 THEN <<-n[1], -n[2], -n[3]>>
    ELSE n

\* the component of the normal whose arccos is vertical_angle
VerticalComponent(n, up_axis) ==
    IF up_axis = "Z" THEN n[3]
    ELSE IF up_axis = "Y" THEN n[2]
    ELSE IF up_axis = "-Y" THEN -n[2]
    ELSE n[3]

\* np.degrees(vertical_angle) > 60 for the unit vector along n: its
\* component along the axis is below cos 60 = 1/2
TiltOver60(n, up_axis) ==
    LET c == VerticalComponent(n, up_axis)
    IN  c < 0 \/ 4 * Sq(c) < Dot(n, n)

\* detection_info of a successful detection
DetectionInfo(method, vs, candidates, inliers) ==
    [method |-> method,
     ground_candidates_count |-> IF method = "height_based" THEN Len(candidates)
                                 ELSE Len(vs),
     inliers_count |-> Len(inliers),
     ransac_stats |-> "ransac_info"]

\* the keys of the rotation_info JSON correct_rotation returns after a
\* successful detection
RotationInfoKeys ==
    {"detection_method", "original_ground_normal", "ground_reference_point",
     "rotation_angles_degrees", "rotation_matrix", "transform_matrix",
     "detection_stats", "corrected_to_horizontal"}

\* the state before any detector call
NoDetectCall ==
    [called |-> FALSE, vertices |-> <<>>, method |-> "none", up_axis |-> "none",
     height_percentile |-> 0, iterations |-> 0, min_ground_points |-> 0,
     outcome |-> "none", retried |-> FALSE, candidates |-> <<>>,
     fitted_normal |-> <<0, 0, 0>>, normal |-> <<0, 0, 0>>, point |-> NoPoint,
     inliers |-> <<>>, warning_logged |-> FALSE,
     detection_info |-> DetectionInfo("none", <<>>, <<>>, <<>>)]

\* the arguments of a detector call that is about to run
DetectRequests ==
    {[NoDetectCall EXCEPT !.vertices = vs, !.method = m, !.up_axis = u,
                          !.height_percentile = hp, !.iterations = it,
                          !.min_ground_points = mg] :
        vs \in DetectInputs, m \in DetectMethods, u \in DetectUpAxes,
        hp \in HeightPercentiles, it \in DetectIterations, mg \in MinGroundPoints}

\* the return of _detect_ground_plane after the search d, n being the unit
\* vector the fitted normal stands for
PlaneReturn(d, n) ==
    [detect_call EXCEPT
        !.called = TRUE, !.outcome = "Plane",
        !.retried = d.retried, !.candidates = d.candidates,
        !.fitted_normal = n,
        !.normal = OrientNormal(n, detect_call.up_axis),
        !.point = d.fit.point, !.inliers = d.fit.inliers,
        !.warning_logged = TiltOver60(OrientNormal(n, detect_call.up_axis),
                                      detect_call.up_axis),
        !.detection_info = DetectionInfo(detect_call.method, detect_call.vertices,
                                         d.candidates, d.fit.inliers)]

\* the call ends without a plane
NoPlaneReturn(d, outcome) ==
    [detect_call EXCEPT !.called = TRUE, !.outcome = outcome,
                        !.retried = d.retried, !.candidates = d.candidates]

\* the end of the call after the search d.  outcome is "Plane" for the
\* final return, "Failed" for the returns of (None, None, None, {}),
\* "Raised" when an exception leaves the function.
DetectReturn(d) ==
    /\ rng' = d.state
    /\ IF d.outcome = "raised" \/ d.fit.raised
       THEN detect_call' = NoPlaneReturn(d, "Raised")
       ELSE IF ~d.fit.found
       THEN detect_call' = NoPlaneReturn(d, "Failed")
       ELSE \E n \in NormalVectors(d.fit.normal) : detect_call' = PlaneReturn(d, n)

\* one call of _detect_ground_plane on the pending arguments
DetectGround ==
    /\ ~detect_call.called
    /\ detect_call.vertices # <<>>
    /\ \E svd_raises \in BOOLEAN :
         DetectReturn(DetectSearch(detect_call.vertices, detect_call.method,
                                   detect_call.height_percentile, detect_call.iterations,
                                   detect_call.min_ground_points, detect_call.up_axis,
                                   svd_raises, rng))
    /\ UNCHANGED <<density_call, fit_call, align_call, bounds_call,
                   filter_call, correct_call>>

----------------------------------------------------------------------------
(* Scene filtering: GLBPointCloudDensityFilter.filter_by_density *)

\* the vertex arrays of the point clouds of a scene: a close pair, a lone
\* point, a close trio, and two points far apart
FilterClouds ==
    {<< <<0, 0, 0>>, <<1, 0, 0>> >>,
     << <<10, 0, 0>> >>,
     << <<0, 0, 0>>, <<1, 0, 0>>, <<0, 1, 0>> >>,
     << <<0, 0, 0>>, <<10, 0, 0>> >>}

\* the scenes: one to MaxNodes point clouds (other geometry is left as it is
\* by the filter and is not carried here)
FilterScenes == UNION {[1..n -> FilterClouds] : n \in 1..MaxNodes}

\* the densities _apply_density_filter computes for one cloud
DensitiesOf(vs, radius_c, use_adaptive_radius, scipy_available) ==
    ComputeDensities(vs, RadiusSq(vs, radius_c, use_adaptive_radius),
                     Backend(Len(vs), scipy_available))

\* Stages A, B and C on the densities: the masks the call can return
MasksFrom(densities, min_neighbors, density_threshold_c, core_c) ==
    CoreProtection(densities,
                   DensityThresholdMask(densities,
                                        MinNeighborMask(densities, min_neighbors),
                                        density_threshold_c),
                   core_c)

\* the keep masks _apply_density_filter can return for one cloud
ApplyDensityFilterMasks(vs, call) ==
    MasksFrom(DensitiesOf(vs, call.neighborhood_radius, call.use_adaptive_radius,
                          call.scipy_available),
              call.min_neighbors, call.density_threshold,
              call.preserve_core_percentage)

\* one mask per cloud, for the clouds from i on
RECURSIVE MaskChoicesFrom(_, _, _)
MaskChoicesFrom(scene, call, i) ==
    IF i > Len(scene) THEN {<<>>}
    ELSE {<<m>> \o rest : m \in ApplyDensityFilterMasks(scene[i], call),
                          rest \in MaskChoicesFrom(scene, call, i + 1)}

\* total_filtered_points: the points the masks retain
RECURSIVE TotalKept(_, _)
TotalKept(masks, i) ==
    IF i > Len(masks) THEN 0 ELSE Count(masks[i]) + TotalKept(masks, i + 1)

\* total_original_points
RECURSIVE TotalPoints(_, _)
TotalPoints(scene, i) ==
    IF i > Len(scene) THEN 0 ELSE Len(scene[i]) + TotalPoints(scene, i + 1)

\* the scene that is exported: the original scene object, in which the
\* clouds of filtered_point_clouds got their filtered vertices; a cloud
\* whose mask retained nothing is not in that list and stays as loaded
SceneAfterFilter(scene, masks) ==
    [i \in DOMAIN scene |->
        IF Count(masks[i]) > 0 THEN Masked(scene[i], masks[i]) ELSE scene[i]]

\* filter_stats of a successful call
FilterStats(scene, masks) ==
    [original_points |-> TotalPoints(scene, 1),
     filtered_points |-> TotalKept(masks, 1),
     removed_points |-> TotalPoints(scene, 1) - TotalKept(masks, 1)]

\* the state before any filter_by_density call
NoFilterCall ==
    [called |-> FALSE, scene |-> <<>>, density_threshold |-> 0,
     neighborhood_radius |-> 0, min_neighbors |-> 0,
     preserve_core_percentage |-> 0, use_adaptive_radius |-> FALSE,
     scipy_available |-> FALSE, masks |-> <<>>, outcome |-> "none",
     exported |-> <<>>, filtered_glb_path |-> "",
     filter_stats |-> [original_points |-> 0, filtered_points |-> 0,
                       removed_points |-> 0]]

\* the arguments of a filter_by_density call that is about to run
FilterRequests ==
    {[NoFilterCall EXCEPT !.scene = sc, !.density_threshold = dt,
                          !.neighborhood_radius = 100, !.min_neighbors = m,
                          !.preserve_core_percentage = core,
                          !.use_adaptive_radius = adaptive,
                          !.scipy_available = scipy] :
        sc \in FilterScenes, dt \in {0, 30}, m \in MinNeighbors, core \in {50, 100},
        adaptive \in BOOLEAN, scipy \in BOOLEAN}

\* the end of the call for the masks of its clouds: ("", "") when no cloud
\* kept a point or the file is not there after the export, else the path
\* and the statistics
FilterReturn(masks, export_ok) ==
    IF TotalKept(masks, 1) = 0 \/ ~export_ok
    THEN [filter_call EXCEPT !.called = TRUE, !.masks = masks, !.outcome = "error"]
    ELSE [filter_call EXCEPT
             !.called = TRUE, !.masks = masks, !.outcome = "ok",
             !.exported = SceneAfterFilter(filter_call.scene, masks),
             !.filtered_glb_path = "density_filtered_pointcloud.glb",
             !.filter_stats = FilterStats(filter_call.scene, masks)]

\* one call of filter_by_density on the pending arguments
FilterByDensity ==
    /\ ~filter_call.called
    /\ filter_call.scene # <<>>
    /\ \E masks \in MaskChoicesFrom(filter_call.scene, filter_call, 1) :
           \E export_ok \in BOOLEAN :
               filter_call' = FilterReturn(masks, export_ok)
    /\ UNCHANGED <<density_call, fit_call, align_call, bounds_call,
                   detect_call, correct_call, rng>>

----------------------------------------------------------------------------
(* Rotation correction: GLBPointCloudRotationCorrector.correct_rotation *)

\* positions of the scenes given to correct_rotation: points of the plane
\* x + 2y + 2z = 3, whose unit normal (1, 2, 2) / 3 is rational
CorrectGrid == << <<1, 1, 0>>, <<3, 0, 0>>, <<3, 1, -1>>, <<1, 2, -1>> >>

\* the vertex arrays a node can carry
CorrectNodeVertices ==
    {<<CorrectGrid[1], CorrectGrid[2], CorrectGrid[3]>>,
     <<CorrectGrid[2], CorrectGrid[4]>>,
     <<CorrectGrid[1]>>}

\* node transforms: the identity and a translation along the plane
CorrectNodeTransforms ==
    {IdentityTransform, [matrix |-> Identity3, offset |-> <<2, -1, 0>>]}

\* the loaded scenes: no node with geometry, or one to MaxNodes of them
CorrectScenes ==
    UNION {[1..n -> [vertices : CorrectNodeVertices, transform : CorrectNodeTransforms]]
              : n \in 0..MaxNodes}

\* the vertices of a node in world coordinates, as correct_rotation and
\* _apply_rotation_transform take them: through the node's transform unless
\* that is (close to) the identity
CorrectorWorldVertices(node) ==
    IF node.transform # IdentityTransform
    THEN [i \in DOMAIN node.vertices |-> ApplyNodeTransform(node.transform, node.vertices[i])]
    ELSE node.vertices

RECURSIVE AllVerticesFrom(_, _)
\* np.vstack(all_vertices) of correct_rotation, node by node
AllVerticesFrom(scene, i) ==
    IF i > Len(scene) THEN <<>>
    ELSE CorrectorWorldVertices(scene[i]) \o AllVerticesFrom(scene, i + 1)

\* ground_detection_method, as the node offers it
CorrectMethods ==
    {"lowest_plane", "height_based", "debug_mode", "simple_test", "ransac_full"}

\* the unit vector along an integer direction whose length is an integer
UnitNormal(n) == [num |-> n, den |-> ISqrt(Dot(n, n))]

\* a fraction in lowest terms with a positive denominator
Frac(num, den) ==
    LET g == Gcd(Abs(num), Abs(den))
    IN  [num |-> num \div g, den |-> den \div g]

FracAdd(x, y) == Frac(x.num * y.den + y.num * x.den, x.den * y.den)

FracTimes(x, k) == Frac(x.num * k, x.den)

\* the 4x4 transform_matrix for a ground point that is a fraction: the
\* translation is linear in the ground point
WithPointDenominator(T, den) ==
    [rotation |-> T.rotation,
     translation |-> [num |-> T.translation.num, den |-> T.translation.den * den]]

\* transform_matrix of _calculate_rotation_transform for the detected plane
CorrectionTransform(ground_normal, ground_point, up_axis) ==
    WithPointDenominator(
        CalculateRotationTransform(1, UnitNormal(ground_normal), ground_point.num,
                                   up_axis).transform_matrix,
        ground_point.den)

\* transform_points(p, transform_matrix) inside the corrector, as one
\* fraction per point
CorrectPoint(T, p) ==
    [num |-> [a \in Axis |-> Dot(T.rotation.num[a], p) * T.translation.den
                                + T.translation.num[a] * T.rotation.den],
     den |-> T.rotation.den * T.translation.den]

\* _apply_rotation_transform: every node's vertices taken to world
\* coordinates by the node's own transform, then corrected, and added to a
\* new scene without a node transform
ApplyRotationTransform(scene, T) ==
    [i \in DOMAIN scene |->
        [vertices |-> [k \in DOMAIN scene[i].vertices |->
                          CorrectPoint(T, CorrectorWorldVertices(scene[i])[k])],
         transform |-> IdentityTransform]]

\* transform_matrix.tolist() in rotation_info: four rows of four numbers
TransformToList(T) ==
    [i \in 1..4 |->
        [j \in 1..4 |->
            IF i = 4 THEN Frac(IF j = 4 THEN 1 ELSE 0, 1)
            ELSE IF j = 4 THEN Frac(T.translation.num[i], T.translation.den)
            ELSE Frac(T.rotation.num[i][j], T.rotation.den)]]

\* rotation_json of a successful call (the keys read later are kept), and
\* the empty string of the failure returns
RotationInfo(method, T) ==
    [empty |-> FALSE, detection_method |-> method,
     transform_matrix |-> TransformToList(T)]

EmptyRotationInfo ==
    [empty |-> TRUE, detection_method |-> "", transform_matrix |-> <<>>]

\* mutant: a failed detection goes on to the export
AfterDetection_ExportsAnyway(outcome) ==
    IF outcome = "Plane" THEN "solve" ELSE "export"

\* where correct_rotation goes after the detector returned: on to the
\* rotation with a plane, to return ("", "") without one

AfterDetection(outcome) == IF outcome = "Plane" THEN "solve" ELSE "returned"

\* mutant: the applier works on the stored vertices of a node
ApplierWorldVertices_Local(node) == node.vertices

\* apply_transform: the vertices of a node in world coordinates
ApplierWorldVertices(node) ==
    IF node.transform # IdentityTransform
    THEN [i \in DOMAIN node.vertices |-> ApplyNodeTransform(node.transform, node.vertices[i])]
    ELSE node.vertices

\* transform_points(p, M) for the parsed 4x4 matrix M: the first three rows
\* applied to (p, 1)
ApplierPoint(M, p) ==
    [a \in Axis |->
        FracAdd(FracAdd(FracTimes(M[a][1], p[1]), FracTimes(M[a][2], p[2])),
                FracAdd(FracTimes(M[a][3], p[3]), M[a][4]))]

\* the scene apply_transform builds
ApplierScene(scene, M) ==
    [i \in DOMAIN scene |->
        [vertices |-> [k \in DOMAIN scene[i].vertices |->
                          ApplierPoint(M, ApplierWorldVertices(scene[i])[k])],
         transform |-> IdentityTransform]]

\* the state before any correct_rotation call
NoCorrectCall ==
    [pc |-> "none", scene |-> <<>>, method |-> "none", up_axis |-> "none",
     iterations |-> 0, combined_vertices |-> <<>>, search |-> "none",
     detect_outcome |-> "none", ground_normal |-> <<0, 0, 0>>, ground_point |-> NoPoint, solved |-> FALSE,
     transform_matrix |-> [rotation |-> [num |-> Identity3, den |-> 1],
                           translation |-> [num |-> <<0, 0, 0>>, den |-> 1]],
     exported |-> FALSE, corrected_scene |-> <<>>, output_path |-> "",
     rotation_info |-> EmptyRotationInfo,
     applied_scene |-> <<>>, transformed_glb_path |-> ""]

\* the arguments of a correct_rotation call that is about to load its file
CorrectRequests ==
    {[NoCorrectCall EXCEPT !.pc = "load", !.scene = sc, !.method = m,
                           !.up_axis = u, !.iterations = it] :
        sc \in CorrectScenes, m \in CorrectMethods, u \in {"Z", "Y", "-Y"},
        it \in DetectIterations}

\* return ("", "")
CorrectFails == [correct_call EXCEPT !.pc = "returned"]

\* correct_rotation loads the scene and stacks the world vertices of its
\* nodes; without any it returns ("", "")
CorrectLoad ==
    /\ correct_call.pc = "load"
    /\ correct_call' =
           IF correct_call.scene = <<>> THEN CorrectFails
           ELSE [correct_call EXCEPT
                    !.pc = "detect",
                    !.combined_vertices = AllVerticesFrom(correct_call.scene, 1)]
    /\ UNCHANGED <<density_call, fit_call, align_call, bounds_call,
                   detect_call, filter_call, rng>>

\* the detector has returned the search d: a plane, None, or an exception
\* that the handler of correct_rotation turns into ("", "").  search keeps
\* how the detector ended: "few" on too few candidates, "fit" after a fit,
\* "raised" on an exception before one.
CorrectDetected(d) ==
    /\ rng' = d.state
    /\ IF d.outcome = "raised" \/ d.fit.raised
       THEN correct_call' = [correct_call EXCEPT !.pc = AfterDetection("Raised"),
                                                 !.search = d.outcome,
                                                 !.detect_outcome = "Raised"]
       ELSE IF ~d.fit.found
       THEN correct_call' = [correct_call EXCEPT !.pc = AfterDetection("Failed"),
                                                 !.search = d.outcome,
                                                 !.detect_outcome = "Failed"]
       ELSE \E n \in NormalVectors(d.fit.normal) :
               correct_call' =
                   [correct_call EXCEPT
                       !.pc = AfterDetection("Plane"), !.detect_outcome = "Plane",
                       !.search = d.outcome,
                       !.ground_normal = OrientNormal(n, correct_call.up_axis),
                       !.ground_point = d.fit.point]

\* correct_rotation calls _detect_ground_plane on the stacked vertices
CorrectDetect ==
    /\ correct_call.pc = "detect"
    /\ \E svd_raises \in BOOLEAN :
           CorrectDetected(DetectSearch(correct_call.combined_vertices,
                                        correct_call.method, 50,
                                        correct_call.iterations, 3,
                                        correct_call.up_axis, svd_raises, rng))
    /\ UNCHANGED <<density_call, fit_call, align_call, bounds_call,
                   detect_call, filter_call>>

\* correct_rotation calls _calculate_rotation_transform on the plane
CorrectSolve ==
    /\ correct_call.pc = "solve"
    /\ correct_call' =
           [correct_call EXCEPT
               !.pc = "export", !.solved = TRUE,
               !.transform_matrix =
                   CorrectionTransform(correct_call.ground_normal,
                                       correct_call.ground_point,
                                       correct_call.up_axis)]
    /\ UNCHANGED <<density_call, fit_call, align_call, bounds_call,
                   detect_call, filter_call, rng>>

\* correct_rotation builds the corrected scene, exports it and returns the
\* path with the rotation JSON; ("", "") when the file is not there after
\* the export.  The reference planes added to the scene are not carried.
CorrectExport ==
    /\ correct_call.pc = "export"
    /\ \E export_ok \in BOOLEAN :
           correct_call' =
               IF export_ok
               THEN [correct_call EXCEPT
                        !.pc = "returned", !.exported = TRUE,
                        !.corrected_scene =
                            ApplyRotationTransform(correct_call.scene,
                                                   correct_call.transform_matrix),
                        !.output_path = "rotation_corrected_pointcloud.glb",
                        !.rotation_info = RotationInfo(correct_call.method,
                                                       correct_call.transform_matrix)]
               ELSE CorrectFails
    /\ UNCHANGED <<density_call, fit_call, align_call, bounds_call,
                   detect_call, filter_call, rng>>

\* apply_transform on the same scene with the rotation_info a successful
\* correct_rotation returned; ("",) when the export fails
ApplyTransform ==
    /\ correct_call.pc = "returned"
    /\ ~correct_call.rotation_info.empty
    /\ \E export_ok \in BOOLEAN :
           correct_call' =
               IF export_ok
               THEN [correct_call EXCEPT
                        !.pc = "applied",
                        !.applied_scene =
                            ApplierScene(correct_call.scene,
                                         correct_call.rotation_info.transform_matrix),
                        !.transformed_glb_path = "transformed_pointcloud.glb"]
               ELSE [correct_call EXCEPT !.pc = "applied"]
    /\ UNCHANGED <<density_call, fit_call, align_call, bounds_call,
                   detect_call, filter_call, rng>>

----------------------------------------------------------------------------
(* Initial state and the density specification *)

\* the density filter never reads the random generator: one state of it
InitDensity ==
    /\ density_call \in DensityRequests
    /\ fit_call = NoFitCall
    /\ align_call = NoAlignCall
    /\ bounds_call = NoBoundsCall
    /\ detect_call = NoDetectCall
    /\ filter_call = NoFilterCall
    /\ correct_call = NoCorrectCall
    /\ rng = 0

NextDensity == ApplyDensityFilter

SpecDensity == InitDensity /\ [][NextDensity]_vars

\* the generator is in any state when the first fit is requested
InitFit ==
    /\ density_call = NoDensityCall
    /\ fit_call \in FitRequests
    /\ align_call = NoAlignCall
    /\ bounds_call = NoBoundsCall
    /\ detect_call = NoDetectCall
    /\ filter_call = NoFilterCall
    /\ correct_call = NoCorrectCall
    /\ rng \in RngStates

NextFit == FitPlane \/ OtherRandomDraw

SpecFit == InitFit /\ [][NextFit]_vars

\* the solver never reads the random generator: one state of it
InitAlign ==
    /\ density_call = NoDensityCall
    /\ fit_call = NoFitCall
    /\ align_call \in AlignRequests
    /\ bounds_call = NoBoundsCall
    /\ detect_call = NoDetectCall
    /\ filter_call = NoFilterCall
    /\ correct_call = NoCorrectCall
    /\ rng = 0

NextAlign == AlignToUp

SpecAlign == InitAlign /\ [][NextAlign]_vars

\* the generator is in any state when the bounds are requested
InitBounds ==
    /\ density_call = NoDensityCall
    /\ fit_call = NoFitCall
    /\ align_call = NoAlignCall
    /\ bounds_call \in BoundsRequests
    /\ detect_call = NoDetectCall
    /\ filter_call = NoFilterCall
    /\ correct_call = NoCorrectCall
    /\ rng \in RngStates

NextBounds == CalculateBounds

SpecBounds == InitBounds /\ [][NextBounds]_vars

\* the generator is in any state when the detection is requested
InitDetect ==
    /\ density_call = NoDensityCall
    /\ fit_call = NoFitCall
    /\ align_call = NoAlignCall
    /\ bounds_call = NoBoundsCall
    /\ detect_call \in DetectRequests
    /\ filter_call = NoFilterCall
    /\ correct_call = NoCorrectCall
    /\ rng \in RngStates

NextDetect == DetectGround

SpecDetect == InitDetect /\ [][NextDetect]_vars

\* the scene filter never reads the random generator: one state of it
InitFilter ==
    /\ density_call = NoDensityCall
    /\ fit_call = NoFitCall
    /\ align_call = NoAlignCall
    /\ bounds_call = NoBoundsCall
    /\ detect_call = NoDetectCall
    /\ filter_call \in FilterRequests
    /\ correct_call = NoCorrectCall
    /\ rng = 0

NextFilter == FilterByDensity

SpecFilter == InitFilter /\ [][NextFilter]_vars

\* the generator is in any state when correct_rotation is called
InitCorrect ==
    /\ density_call = NoDensityCall
    /\ fit_call = NoFitCall
    /\ align_call = NoAlignCall
    /\ bounds_call = NoBoundsCall
    /\ detect_call = NoDetectCall
    /\ filter_call = NoFilterCall
    /\ correct_call \in CorrectRequests
    /\ rng \in RngStates

NextCorrect ==
    CorrectLoad \/ CorrectDetect \/ CorrectSolve \/ CorrectExport \/ ApplyTransform

SpecCorrect == InitCorrect /\ [][NextCorrect]_vars

----------------------------------------------------------------------------
(* Claims about the density filter *)

\* Stage C acted in the recorded call: it is enabled, something survived
\* Stage B, and the survivors are fewer than the core target
CoreProtectionActed ==
    /\ density_call.preserve_core_percentage < 100
    /\ Count(density_call.after_threshold) > 0
    /\ Count(density_call.after_threshold)
          < TargetCorePoints(Len(density_call.vertices),
                             density_call.preserve_core_percentage)

\* points retained by Stages A and B alone
RetainedWithoutCore(densities, min_neighbors, density_threshold_c) ==
    Count(DensityThresholdMask(densities,
                               MinNeighborMask(densities, min_neighbors),
                               density_threshold_c))

\* C1 (as claimed): with preserve_core_percentage = 1.0 the mask retains at
\* least ceil(1.0 * N) points, that is all N points.
C1_CoreOneKeepsAll ==
    (density_call.called /\ density_call.preserve_core_percentage = 100)
        => Count(density_call.keep_mask) >= Len(density_call.vertices)

\* C2 (as claimed): every point whose neighbour count is below min_neighbors
\* is excluded from the final mask.
C2_BelowMinNeighborsExcluded ==
    density_call.called =>
        \A i \in DOMAIN density_call.densities :
            density_call.densities[i] < density_call.min_neighbors
                => ~density_call.keep_mask[i]

\* C2 (amended): every point whose neighbour count is below min_neighbors is
\* excluded after Stages A and B, and is in the final mask only when Stage C
\* acted (core fraction below 1.0, some survivor, survivors below the core
\* target) and restored it.
C2_BelowMinNeighborsExcludedUnlessRestored ==
    density_call.called =>
        \A i \in DOMAIN density_call.densities :
            density_call.densities[i] < density_call.min_neighbors
                => /\ ~density_call.after_threshold[i]
                   /\ density_call.keep_mask[i] => CoreProtectionActed

\* an isolated point is dropped while Stage C does not act and others stay
C2_Witness ==
    /\ density_call.called
    /\ ~CoreProtectionActed
    /\ \E i \in DOMAIN density_call.densities :
           /\ density_call.densities[i] = 0
           /\ ~density_call.keep_mask[i]
    /\ \E j \in DOMAIN density_call.densities : density_call.keep_mask[j]

\* C3: with Stage C disabled (preserve_core_percentage = 1.0) and everything
\* else fixed, the number of retained points does not grow with
\* min_neighbors: a larger min_neighbors retains no more points than the
\* recorded call, a smaller one no fewer.
C3_MonotoneInMinNeighbors ==
    (density_call.called /\ density_call.preserve_core_percentage = 100) =>
        \A m2 \in 0..(MaxPoints + 1) :
            LET other == RetainedWithoutCore(density_call.densities, m2,
                                             density_call.density_threshold)
                this  == Count(density_call.keep_mask)
            IN  /\ m2 >= density_call.min_neighbors => other <= this
                /\ m2 <= density_call.min_neighbors => other >= this

\* a call with Stage C disabled that keeps some points, and for which a
\* larger min_neighbors keeps strictly fewer but still some
C3_Witness ==
    /\ density_call.called
    /\ density_call.preserve_core_percentage = 100
    /\ density_call.density_threshold > 0
    /\ \E m2 \in (density_call.min_neighbors + 1)..(MaxPoints + 1) :
           LET other == RetainedWithoutCore(density_call.densities, m2,
                                            density_call.density_threshold)
           IN  0 < other /\ other < Count(density_call.keep_mask)

\* C13 (as claimed): without the tree backend, the all-pairs computation
\* serves only inputs below the pairwise limit, and every input at or above
\* it is counted by the voxel approximation.
C13_NoQuadraticOnLargeInputs ==
    (density_call.called /\ ~density_call.scipy_available) =>
        IF Len(density_call.vertices) < PAIRWISE_MATRIX_LIMIT
        THEN density_call.backend = "pairwise_matrix"
        ELSE density_call.backend = "voxel"

\* factors the point set is scaled by
ScaleFactors == {2, 3}

\* every coordinate times k
Scaled(vs, k) == [i \in DOMAIN vs |-> [a \in Axis |-> k * vs[i][a]]]

\* the neighbour counts of the recorded call's arguments with the point set
\* scaled by k
ScaledDensities(k, use_adaptive_radius) ==
    LET svs == Scaled(density_call.vertices, k)
    IN  ComputeDensities(svs,
                         RadiusSq(svs, density_call.neighborhood_radius,
                                  use_adaptive_radius),
                         Backend(Len(svs), density_call.scipy_available))

\* C16: with the adaptive radius, scaling every coordinate by k > 0 with all
\* parameters unchanged gives the same neighbour counts and the same mask
\* (the recorded mask is one the scaled call can return).
C16_AdaptiveRadiusScaleInvariant ==
    (density_call.called /\ density_call.use_adaptive_radius) =>
        \A k \in ScaleFactors :
            LET d2 == ScaledDensities(k, TRUE)
            IN  /\ d2 = density_call.densities
                /\ density_call.keep_mask \in
                       CoreProtection(d2,
                           DensityThresholdMask(d2,
                               MinNeighborMask(d2, density_call.min_neighbors),
                               density_call.density_threshold),
                           density_call.preserve_core_percentage)

\* an adaptive call that keeps some points and drops others, on a point set
\* whose counts would change under scaling with a fixed radius
C16_Witness ==
    /\ density_call.called
    /\ density_call.use_adaptive_radius
    /\ \E i, j \in DOMAIN density_call.keep_mask :
           density_call.keep_mask[i] /\ ~density_call.keep_mask[j]
    /\ ScaledDensities(2, FALSE) # density_call.densities

\* C17 (as claimed): with core protection inactive and everything else
\* fixed, a larger density_threshold retains no more points than the
\* recorded call.
C17_MonotoneInDensityThreshold ==
    (density_call.called /\ density_call.preserve_core_percentage = 100
        /\ density_call.density_threshold > 0) =>
        \A t2 \in {t \in DensityThresholds : t >= density_call.density_threshold} :
            RetainedWithoutCore(density_call.densities, density_call.min_neighbors, t2)
                <= Count(density_call.keep_mask)

\* C21 (as claimed): when fewer points than core_keep_fraction * N are
\* retained after Stage B, the final mask holds at least the core target
\* int(core_keep_fraction * N) or every point, also when Stages A and B
\* left no point at all.
C21_CoreTargetReached ==
    (density_call.called
        /\ Count(density_call.after_threshold) * 100
               < density_call.preserve_core_percentage * Len(density_call.vertices))
        => \/ Count(density_call.keep_mask)
                  >= (Len(density_call.vertices) * density_call.preserve_core_percentage)
                         \div 100
           \/ Count(density_call.keep_mask) = Len(density_call.vertices)

\* C26: after Stages A, B and C no dropped point has a strictly greater
\* neighbour count than a retained point.
C26_FinalMaskIsTopSet ==
    density_call.called =>
        \A i \in DOMAIN density_call.keep_mask :
            \A j \in DOMAIN density_call.keep_mask :
                (density_call.keep_mask[i] /\ ~density_call.keep_mask[j])
                    => density_call.densities[j] <= density_call.densities[i]

\* a call in which Stage B removed a point, Stage C restored one, and a
\* dropped point is sparser than a retained one
C26_Witness ==
    /\ density_call.called
    /\ density_call.after_threshold # density_call.after_min_neighbors
    /\ density_call.keep_mask # density_call.after_threshold
    /\ \E i \in DOMAIN density_call.keep_mask :
           \E j \in DOMAIN density_call.keep_mask :
               /\ density_call.keep_mask[i] /\ ~density_call.keep_mask[j]
               /\ density_call.densities[j] < density_call.densities[i]

----------------------------------------------------------------------------
(* Claims about the plane fitter *)

\* C4 (as claimed): a fit of fewer than 3 points, or of fewer than
\* min_points points, returns the InsufficientPoints failure and raises
\* nothing, whatever iterations, distance_threshold and min_points are.
C4_FewPointsInsufficient ==
    (fit_call.calls > 0
        /\ (Len(fit_call.points) < 3 \/ Len(fit_call.points) < fit_call.min_points))
        => fit_call.result.kind = "InsufficientPoints"

\* C5 (as claimed): a second fit of the same arguments returns the same
\* plane, inliers and statistics as the first, whatever the generator's
\* state before each of the two calls.
C5_SameArgumentsSameResult ==
    fit_call.calls = 2 => fit_call.result = fit_call.first

\* all points of a sequence lie on one line
AllCollinear(ps) ==
    \A i, j, k \in DOMAIN ps :
        Cross(Sub(ps[j], ps[i]), Sub(ps[k], ps[i])) = <<0, 0, 0>>

\* the best inlier count of the recorded call's search: over the sub-sample
\* drawn from the generator as it was before the call, then seeded rounds
SearchBestScore ==
    LET sub == SearchSample(fit_call.points, fit_call.rng_before)
        ransac_points == IF sub.sampled THEN Pick(fit_call.points, sub.idx)
                         ELSE fit_call.points
    IN  RansacLoop(ransac_points, fit_call.distance_threshold,
                   fit_call.iterations, NoBest, Seed42).best.score

\* C15: for a call that passes the size guard and whose rounds can sample
\* (at least three points, or no round at all), a plane is returned exactly
\* when the best candidate has at least min_points inliers, and the
\* returned inliers are that many; otherwise, and in particular when all
\* points are collinear, the FitFailed value is returned and no plane.
C15_PlaneOnlyWithEnoughInliers ==
    (fit_call.calls > 0 /\ Len(fit_call.points) >= fit_call.min_points
        /\ (Len(fit_call.points) >= 3 \/ fit_call.iterations = 0)) =>
        /\ fit_call.result.kind \in {"Plane", "FitFailed"}
        /\ fit_call.result.kind = "Plane" <=> SearchBestScore >= fit_call.min_points
        /\ fit_call.result.kind = "Plane" =>
               /\ Len(fit_call.result.inliers) >= fit_call.min_points
               /\ fit_call.result.normal # NoNormal
        /\ fit_call.result.kind = "FitFailed" =>
               fit_call.result.normal = NoNormal /\ fit_call.result.point = NoPoint
        /\ AllCollinear(fit_call.points) => fit_call.result.kind = "FitFailed"

\* rounds ran on at least min_points collinear points and the fit failed
C15_Witness ==
    /\ fit_call.calls > 0
    /\ fit_call.iterations >= 1
    /\ Len(fit_call.points) >= 3
    /\ Len(fit_call.points) >= fit_call.min_points
    /\ AllCollinear(fit_call.points)
    /\ fit_call.result.kind = "FitFailed"

\* the points the recorded call's rounds sample from: the sub-sample drawn
\* from the generator as it was before the call, or all points
SearchPoints ==
    IF Len(fit_call.points) > max_ransac_points
    THEN Pick(fit_call.points, Choice(fit_call.rng_before, Len(fit_call.points),
                                      max_ransac_points).idx)
    ELSE fit_call.points

\* the generator before round k of a search over n points (round 1 follows
\* the seeding)
RECURSIVE StateBeforeRound(_, _)
StateBeforeRound(n, k) ==
    IF k = 1 THEN Seed42 ELSE Choice(StateBeforeRound(n, k - 1), n, 3).state

\* the three points round k samples from ps
SampleOfRound(ps, k) == Pick(ps, Choice(StateBeforeRound(Len(ps), k), Len(ps), 3).idx)

\* the cross product of a sample
SampleCross(sample) == Cross(Sub(sample[2], sample[1]), Sub(sample[3], sample[1]))

\* the inlier mask over ps of the plane through a sample
SampleInliers(ps, sample, threshold_c) ==
    [i \in DOMAIN ps |-> WithinPlane(ps[i], sample[1], SampleCross(sample), threshold_c)]

\* the candidate plane of a non-collinear sample
CandidateOf(ps, sample, threshold_c) ==
    [score |-> Count(SampleInliers(ps, sample, threshold_c)),
     normal |-> [by |-> "cross", dir |-> Direction(SampleCross(sample)), points |-> <<>>],
     point |-> [num |-> sample[1], den |-> 1],
     inliers |-> Where(SampleInliers(ps, sample, threshold_c))]

\* the rounds among the first k whose sample is not collinear
ValidRounds(ps, k) ==
    {j \in 1..k : SampleCross(SampleOfRound(ps, j)) # <<0, 0, 0>>}

\* the first of the rounds js whose candidate has the most inliers
FirstMaximalRound(ps, js, threshold_c) ==
    CHOOSE j \in js :
        \A i \in js :
            LET ci == CandidateOf(ps, SampleOfRound(ps, i), threshold_c).score
                cj == CandidateOf(ps, SampleOfRound(ps, j), threshold_c).score
            IN  ci < cj \/ (ci = cj /\ j <= i)

\* what the claim expects to be stored after k rounds
FirstMaximalCandidate(ps, k, threshold_c) ==
    IF ValidRounds(ps, k) = {} THEN NoBest
    ELSE CandidateOf(ps, SampleOfRound(ps, FirstMaximalRound(ps, ValidRounds(ps, k),
                                                             threshold_c)),
                     threshold_c)

\* C22: after any number of rounds of the recorded call, the stored normal,
\* point, score and inliers are those of the first candidate with the most
\* inliers among the non-collinear samples so far.
C22_BestIsFirstMaximalCandidate ==
    (fit_call.calls > 0 /\ Len(fit_call.points) >= 3) =>
        \A k \in 0..fit_call.iterations :
            RansacLoop(SearchPoints, fit_call.distance_threshold, k, NoBest,
                       Seed42).best
                = FirstMaximalCandidate(SearchPoints, k, fit_call.distance_threshold)

\* two rounds gave different candidates with the same number of inliers
C22_Witness ==
    /\ fit_call.calls > 0
    /\ fit_call.iterations >= 2
    /\ Len(fit_call.points) >= 3
    /\ ValidRounds(SearchPoints, 2) = {1, 2}
    /\ CandidateOf(SearchPoints, SampleOfRound(SearchPoints, 1),
                   fit_call.distance_threshold).score
          = CandidateOf(SearchPoints, SampleOfRound(SearchPoints, 2),
                        fit_call.distance_threshold).score
    /\ CandidateOf(SearchPoints, SampleOfRound(SearchPoints, 1),
                   fit_call.distance_threshold)
          # CandidateOf(SearchPoints, SampleOfRound(SearchPoints, 2),
                        fit_call.distance_threshold)

\* the best candidate of the recorded call's search
SearchBest ==
    RansacLoop(SearchPoints, fit_call.distance_threshold, fit_call.iterations,
               NoBest, Seed42).best

\* C23 (as claimed): the inliers of a returned plane index the full point
\* set, denote exactly the points within distance_threshold of the best
\* RANSAC plane, and are as many as best_inliers_count reports.
C23_InliersIndexFullSet ==
    (fit_call.calls > 0 /\ fit_call.result.kind = "Plane") =>
        /\ fit_call.result.inliers
               = Where([i \in DOMAIN fit_call.points |->
                           WithinBest(fit_call.points[i], SearchBest,
                                      fit_call.distance_threshold)])
        /\ Len(fit_call.result.inliers) = fit_call.result.info.best_inliers_count

\* C24: when the SVD raises, the call still returns a plane, whose normal
\* and point are both those of the best RANSAC candidate.
C24_UnrefinedPlaneOnSvdFailure ==
    (fit_call.calls > 0 /\ fit_call.svd_raises /\ Len(fit_call.points) >= 3
        /\ SearchBest.score >= fit_call.min_points) =>
        /\ fit_call.result.kind = "Plane"
        /\ fit_call.result.normal = SearchBest.normal
        /\ fit_call.result.point = SearchBest.point

\* the SVD raised on inliers whose centroid is not the RANSAC point
C24_Witness ==
    /\ fit_call.calls > 0
    /\ fit_call.svd_raises
    /\ fit_call.result.kind = "Plane"
    /\ Len(fit_call.result.inliers) >= 3
    /\ Len(fit_call.points) <= max_ransac_points
    /\ SumPoints(Pick(fit_call.points, fit_call.result.inliers))
          # [a \in Axis |-> fit_call.result.point.num[a] * Len(fit_call.result.inliers)]

\* C18 (as claimed): a call leaves the process-wide state, the shared random
\* generator included, as it was before the call; here for the plane fitter.
C18_NoStateLeftBehind ==
    [][fit_call'.calls > fit_call.calls => rng' = rng]_vars

----------------------------------------------------------------------------
(* Claims about the rotation solver *)

\* the unit normal of the recorded call, and its target
AlignNormal == Normalized(align_call.scale, align_call.dir)

\* the up direction each up_axis value stands for
UpDirection(up_axis) ==
    CASE up_axis = "Z" -> <<0, 0, 1>>
      [] up_axis = "Y" -> <<0, 1, 0>>
      [] up_axis = "-Y" -> <<0, -1, 0>>

AlignTarget == UpDirection(align_call.up_axis)

\* the rotation applied to the unit normal
AlignRotatedNormal ==
    [num |-> MatVec(align_call.rotation_matrix.num, AlignNormal.num),
     den |-> align_call.rotation_matrix.den * AlignNormal.den]

\* a matrix num / den is the identity
IsIdentity(R) == \A i, j \in Axis : R.num[i][j] = R.den * Identity3[i][j]

\* a matrix num / den is orthonormal: R R^T = I
IsOrthonormal(R) ==
    \A i, j \in Axis : Dot(R.num[i], R.num[j]) = Sq(R.den) * Identity3[i][j]

\* the rotated normal is the target exactly
RotatedNormalIsTarget ==
    \A a \in Axis : AlignRotatedNormal.num[a] = AlignRotatedNormal.den * AlignTarget[a]

\* the rotated normal is a unit vector at most 5 degrees from the target
RotatedNormalWithin5Degrees ==
    /\ IsOrthonormal(align_call.rotation_matrix)
    /\ CosineWithin5Degrees(Dot(AlignRotatedNormal.num, AlignTarget),
                            AlignRotatedNormal.den)

\* C6: when the normal equals the target up direction exactly, the rotation
\* is the identity and the Euler angles are (0, 0, 0), for Z, Y and -Y.
C6_AlignedGivesIdentity ==
    (align_call.called /\ AlignNormal.den = 1 /\ AlignNormal.num = AlignTarget
        /\ align_call.scale = 1)
        => /\ IsIdentity(align_call.rotation_matrix)
           /\ align_call.rotation_angles = <<ZeroAngle, ZeroAngle, ZeroAngle>>

\* the solver ran on the normal (0, -1, 0) with up_axis -Y
C6_Witness ==
    /\ align_call.called
    /\ align_call.up_axis = "-Y"
    /\ align_call.scale = 1
    /\ AlignNormal = [num |-> <<0, -1, 0>>, den |-> 1]
    /\ align_call.branch = "aligned"

\* C7 (as claimed): in all three branches the rotated unit normal is at most
\* 5 degrees from the target, and in the aligned and antiparallel branches
\* it is the target exactly.
C7_RotatedNormalOnTarget ==
    align_call.called =>
        /\ RotatedNormalWithin5Degrees
        /\ align_call.branch \in {"aligned", "antiparallel"} => RotatedNormalIsTarget

\* C7 (amended): in all three branches the rotated unit normal is at most 5
\* degrees from the target; it is the target exactly in the general branch,
\* and in the aligned and antiparallel branches when the normal is exactly
\* the target or its opposite (those two branches also take normals whose
\* dot product with the target is within 1e-6 of 1 or -1, and leave that
\* residual in the result).
C7_RotatedNormalNearTarget ==
    align_call.called =>
        /\ RotatedNormalWithin5Degrees
        /\ align_call.branch = "general" => RotatedNormalIsTarget
        /\ (AlignNormal.den = 1 /\ AlignNormal.num = AlignTarget)
              => (align_call.branch = "aligned" /\ RotatedNormalIsTarget)
        /\ (AlignNormal.den = 1 /\ AlignNormal.num = [a \in Axis |-> -AlignTarget[a]])
              => (align_call.branch = "antiparallel" /\ RotatedNormalIsTarget)

\* Rodrigues' formula turned a tilted normal onto the -Y target
C7_Witness ==
    /\ align_call.called
    /\ align_call.branch = "general"
    /\ align_call.up_axis = "-Y"
    /\ AlignNormal.den = 7
    /\ ~IsIdentity(align_call.rotation_matrix)
    /\ RotatedNormalIsTarget

\* the transform applied to a point: rotation, then translation
TransformPoint(T, p) ==
    [num |-> [a \in Axis |->
                 T.translation.den * MatVec(T.rotation.num, p)[a]
                     + T.rotation.den * T.translation.num[a]],
     den |-> T.rotation.den * T.translation.den]

\* C8: the 4x4 transform holds the rotation in its upper-left 3x3, has zero
\* translation on the two axes that are not the up axis, and maps the
\* reference point to a point whose up-axis coordinate is 0.
C8_TransformGroundsReferencePoint ==
    align_call.called =>
        LET T == align_call.transform_matrix
            h == IF align_call.up_axis = "Z" THEN 3 ELSE 2
        IN  /\ T.rotation = align_call.rotation_matrix
            /\ \A a \in Axis \ {h} : T.translation.num[a] = 0
            /\ TransformPoint(T, align_call.ground_point).num[h] = 0

\* a tilted normal with up_axis Y and a reference point that the rotation
\* alone leaves off the ground: the translation is not zero
C8_Witness ==
    /\ align_call.called
    /\ align_call.up_axis = "Y"
    /\ align_call.branch = "general"
    /\ align_call.transform_matrix.translation.num[2] # 0

\* C25 (as claimed): for Z, Y and -Y the misalignment warning is logged
\* exactly when the rotated normal is more than 5 degrees from the target up
\* direction of the configured axis.
C25_WarningIffOffTarget ==
    (align_call.called /\ align_call.up_axis \in {"Z", "Y", "-Y"}) =>
        (align_call.warned
            <=> ~CosineWithin5Degrees(Dot(AlignRotatedNormal.num, AlignTarget),
                                      AlignRotatedNormal.den))

----------------------------------------------------------------------------
(* Claims about the bounding volumes *)

\* the world positions of the vertices of the recorded scene
WorldPointsOfScene ==
    UNION {{ApplyNodeTransform(bounds_call.scene[n].transform,
                               bounds_call.scene[n].vertices[i]) :
               i \in DOMAIN bounds_call.scene[n].vertices} :
              n \in DOMAIN bounds_call.scene}

\* C9: for a non-empty point set aggregated over all nodes after their node
\* transforms, the axis-aligned bounds satisfy center = (min + max) / 2 and
\* extents = max - min on every axis, and every point lies between min and
\* max on every axis.
C9_AxisAlignedBounds ==
    (bounds_call.called /\ bounds_call.bounding_box_type = "axis_aligned"
        /\ WorldPointsOfScene # {})
        => /\ bounds_call.outcome = "ok"
           /\ \A a \in Axis :
                 /\ bounds_call.center.num[a] * 2
                        = bounds_call.center.den
                              * (bounds_call.min_point[a] + bounds_call.max_point[a])
                 /\ bounds_call.extents[a]
                        = bounds_call.max_point[a] - bounds_call.min_point[a]
                 /\ \A p \in WorldPointsOfScene :
                        bounds_call.min_point[a] <= p[a] /\ p[a] <= bounds_call.max_point[a]

\* an axis-aligned call on two nodes, one of them transformed, whose points
\* differ on every axis
C9_Witness ==
    /\ bounds_call.called
    /\ bounds_call.bounding_box_type = "axis_aligned"
    /\ bounds_call.outcome = "ok"
    /\ Len(bounds_call.scene) = 2
    /\ \E n \in DOMAIN bounds_call.scene :
           bounds_call.scene[n].transform # IdentityTransform
    /\ \A a \in Axis : bounds_call.extents[a] > 0

\* the returned tuple reports the fallback: some part of it says so
ReportsFallback(returned) ==
    \/ DOMAIN returned # {"output_glb_path", "scale_json"}
    \/ DOMAIN returned.scale_json # {"name", "scale"}

\* C10 (as claimed): when the oriented-bounding-box routine fails on a
\* non-empty point set, the call still returns a result whose center and
\* extents are those of the axis-aligned box, and the returned result
\* reports the fallback.
C10_FallbackReported ==
    (bounds_call.called /\ bounds_call.bounding_box_type = "oriented"
        /\ bounds_call.obb_failed)
        => /\ bounds_call.outcome = "ok"
           /\ bounds_call.center = AxisAlignedBox(bounds_call.combined_vertices).center
           /\ bounds_call.extents = AxisAlignedBox(bounds_call.combined_vertices).extents
           /\ ReportsFallback(bounds_call.returned)

----------------------------------------------------------------------------
(* Claims about the ground detector *)

\* the index of the coordinate along the configured up-axis
UpCoordinate(up_axis) ==
    CASE up_axis = "Z" -> 3
      [] up_axis = "Y" -> 2
      [] up_axis = "-Y" -> 2

\* the methods and the up-axis values the node supports
SupportedMethods ==
    {"lowest_plane", "height_based", "debug_mode", "simple_test", "ransac_full"}

SupportedUpAxes == {"Z", "Y", "-Y"}

\* the returned normal is more than 60 degrees from the up direction: its
\* cosine with the up direction is below 1/2
NormalTiltedOver60 ==
    LET c == Dot(detect_call.normal, UpDirection(detect_call.up_axis))
    IN  c < 0 \/ 4 * Sq(c) < Dot(detect_call.normal, detect_call.normal)

\* what goes back to the caller names a warning: the detection_info of the
\* detector, or the rotation_info that correct_rotation builds from it
CarriesWarning ==
    \E key \in DOMAIN detect_call.detection_info \cup RotationInfoKeys :
        key \in {"warning", "warnings", "misdetection", "tilt_warning"}

\* C11 (as claimed): when the fitted normal is more than 60 degrees from
\* the configured up-axis, the detection still succeeds and the result
\* handed back carries the misdetection warning.
C11_TiltWarningReturned ==
    (detect_call.called /\ detect_call.outcome = "Plane"
        /\ detect_call.up_axis \in SupportedUpAxes /\ NormalTiltedOver60)
        => CarriesWarning

\* C12 (as claimed): a method or up_axis outside the supported values gives
\* a failure, and no plane is returned for it.
C12_UnsupportedValueFails ==
    (detect_call.called
        /\ (detect_call.method \notin SupportedMethods
               \/ detect_call.up_axis \notin SupportedUpAxes))
        => detect_call.outcome # "Plane"

\* C14: every successful detection with up_axis Z, Y or -Y returns a normal
\* whose dot product with the configured up direction is not negative.
C14_NormalPointsUp ==
    (detect_call.called /\ detect_call.outcome = "Plane"
        /\ detect_call.up_axis \in SupportedUpAxes)
        => Dot(detect_call.normal, UpDirection(detect_call.up_axis)) >= 0

\* a detection with up_axis -Y whose fitted normal pointed the other way
\* and was turned
C14_Witness ==
    /\ detect_call.called
    /\ detect_call.outcome = "Plane"
    /\ detect_call.up_axis = "-Y"
    /\ detect_call.fitted_normal[2] > 0
    /\ detect_call.normal # detect_call.fitted_normal

\* C19 (as claimed): in the height_based method the candidates are exactly
\* the points whose coordinate along the configured up-axis is at or below
\* the percentile of that coordinate over all points.
C19_CandidatesAlongUpAxis ==
    (detect_call.called /\ detect_call.method = "height_based"
        /\ detect_call.up_axis \in SupportedUpAxes)
        => LET h == Column(detect_call.vertices, UpCoordinate(detect_call.up_axis))
           IN  detect_call.candidates =
                   Masked(detect_call.vertices,
                          [i \in DOMAIN h |->
                              AtMostPercentile(h[i], h, detect_call.height_percentile)])

\* the points within band_c hundredths of the range from the ground extreme
\* of the configured up-axis
GroundBand(band_c) ==
    LET h  == Column(detect_call.vertices, UpCoordinate(detect_call.up_axis))
        lo == MinOf(Values(h))
        hi == MaxOf(Values(h))
    IN  Masked(detect_call.vertices,
               [i \in DOMAIN h |->
                   IF detect_call.up_axis = "-Y"
                   THEN 100 * h[i] >= 100 * hi - band_c * (hi - lo)
                   ELSE 100 * h[i] <= 100 * lo + band_c * (hi - lo)])

\* C20 (as claimed): in the lowest_plane method, when the 5% band holds
\* fewer candidates than required, the detector retries with the 10% band
\* on the same side of the same axis, goes on to the fit with those
\* candidates if they are enough, and fails only if they are not.
C20_RetryWithDoubledBand ==
    (detect_call.called /\ detect_call.method = "lowest_plane"
        /\ detect_call.up_axis \in SupportedUpAxes
        /\ Len(GroundBand(5)) < detect_call.min_ground_points)
        => /\ detect_call.outcome \in {"Plane", "Failed"}
           /\ detect_call.candidates = GroundBand(10)
           /\ Len(GroundBand(10)) < detect_call.min_ground_points
                  => detect_call.outcome = "Failed"

----------------------------------------------------------------------------
(* Claims about the scene filter *)

\* the points of the exported scene
RECURSIVE ExportedPoints(_, _)
ExportedPoints(clouds, i) ==
    IF i > Len(clouds) THEN 0 ELSE Len(clouds[i]) + ExportedPoints(clouds, i + 1)

\* C28 (as claimed): after a successful call every cloud of the exported
\* scene holds exactly the points its own mask retained, and the exported
\* points are as many as filtered_points reports.
C28_ExportedCloudsMatchMasks ==
    (filter_call.called /\ filter_call.outcome = "ok") =>
        /\ \A i \in DOMAIN filter_call.scene :
               filter_call.exported[i]
                   = Masked(filter_call.scene[i], filter_call.masks[i])
        /\ ExportedPoints(filter_call.exported, 1)
               = filter_call.filter_stats.filtered_points

----------------------------------------------------------------------------
(* Claims about correct_rotation and apply_transform *)

\* the normal handed to the solver has an integer length (the scenes are
\* chosen so), and the model's arithmetic on it is exact
UnitNormalsExact ==
    correct_call.detect_outcome = "Plane"
        => Sq(ISqrt(Dot(correct_call.ground_normal, correct_call.ground_normal)))
               = Dot(correct_call.ground_normal, correct_call.ground_normal)

\* the detector ended without a plane
NoPlaneDetected == correct_call.detect_outcome \in {"Failed", "Raised"}

\* correct_rotation has returned ("", "")
ReturnedEmpty ==
    /\ correct_call.pc = "returned"
    /\ correct_call.output_path = ""
    /\ correct_call.rotation_info.empty

\* the step that writes the corrected file
ExportStep == ~correct_call.exported /\ correct_call'.exported

\* C29: correct_rotation exports only after the detection gave a plane and
\* the rotation was computed; once the detection has ended without a plane
\* (too few candidates, a failed fit, an exception inside the detector) the
\* call has returned two empty strings and nothing is exported from then on
C29_ExportOnlyAfterDetectionAndRotation ==
    /\ [][ExportStep => correct_call.detect_outcome = "Plane" /\ correct_call.solved]_vars
    /\ [](NoPlaneDetected => ReturnedEmpty /\ [](~correct_call.exported))

\* a call whose detector raised has returned two empty strings without an
\* export
C29_Witness ==
    /\ correct_call.detect_outcome = "Raised"
    /\ ReturnedEmpty
    /\ ~correct_call.exported
    /\ correct_call.corrected_scene = <<>>

\* the fractions x and y are the same number
SameNumber(x, y) == x.num * y.den = y.num * x.den

\* node i of the applier's scene and of the corrector's scene hold the same
\* positions and no node transform
SameNode(applied, corrected) ==
    /\ applied.transform = IdentityTransform
    /\ corrected.transform = IdentityTransform
    /\ DOMAIN applied.vertices = DOMAIN corrected.vertices
    /\ \A k \in DOMAIN applied.vertices : \A a \in Axis :
           SameNumber(applied.vertices[k][a],
                      [num |-> corrected.vertices[k].num[a],
                       den |-> corrected.vertices[k].den])

\* C30: apply_transform, given the rotation_info of a successful
\* correct_rotation and the same file, builds for every node the vertex
\* positions of correct_rotation's corrected scene, stored without a node
\* transform
C30_ApplierMatchesCorrector ==
    correct_call.pc = "applied" /\ correct_call.transformed_glb_path # ""
        => /\ DOMAIN correct_call.applied_scene = DOMAIN correct_call.corrected_scene
           /\ DOMAIN correct_call.applied_scene = DOMAIN correct_call.scene
           /\ \A i \in DOMAIN correct_call.applied_scene :
                  SameNode(correct_call.applied_scene[i],
                           correct_call.corrected_scene[i])

\* the applier has run on a scene with a node transform, for a correction
\* that both turns and shifts
C30_Witness ==
    /\ correct_call.pc = "applied"
    /\ correct_call.transformed_glb_path # ""
    /\ \E i \in DOMAIN correct_call.scene :
           correct_call.scene[i].transform # IdentityTransform
    /\ correct_call.transform_matrix.rotation.num # Identity3
    /\ correct_call.transform_matrix.translation.num # <<0, 0, 0>>

====
